---- MODULE Spec2Model ----
(***************************************************************************)
(* A model of the HDF5 decoder of source/hdf5.js: File.open / File.read,   *)
(* the two readers (BinaryReader, StreamReader), Group, Variable.data and  *)
(* the chunk reassembly.  Each part of the decoder has its own             *)
(* specification over its own variables; the variables of the other parts  *)
(* stay at their idle value.                                               *)
(***************************************************************************)
EXTENDS Integers, Sequences, FiniteSets, TLC

VARIABLES
    data,       \* File.open: the argument (a byte slab or a stream), or NoData
    opened,     \* File.open: the returned value, NotCalled before the call
    br,         \* readers: a BinaryReader over the source bytes
    sr,         \* readers: a StreamReader over a stream of the same bytes
    brOut,      \* readers: what the last call on br returned or threw
    srOut,      \* readers: what the last call on sr returned or threw
    rdOp,       \* readers: the last call, made on both readers
    ds,         \* datasets: a Variable (layout, shape, chunk nodes) and its file
    dsReader,   \* datasets: the file's reader
    dsOut,      \* datasets: what Variable.data returned or threw
    image,      \* session: the file, its superblock in bytes, the rest parsed
    file,       \* session: the File object
    fsReader,   \* session: the reader shared by the File's groups and variables
    globalHeap, \* session: the addresses of the collections the GlobalHeap holds
    groups,     \* session: the Group objects made so far, by id
    reads,      \* session: of each property read, the first and the last result
    lastOp,     \* session: the last call, with the reader position around it
    walk,       \* object headers: a DataObjectHeader under construction
    dt,         \* datatypes: a Datatype, its reader, what type and read gave
    dec,        \* decoding: an array as read, its datatype and what decode gave
    lz,         \* LZF: a chunk under Filter._lzf, the input and output indices
    fp,         \* Filters: a chunk passing through the filter pipeline
    tr          \* Trees: a B-tree under construction, the constructors on the stack

openVars == <<data, opened>>
readerVars == <<br, sr, brOut, srOut, rdOp>>

\* What the actions of one part leave alone: the variables of the other parts.
datasetVars == <<ds, dsReader, dsOut>>
sessionVars == <<image, file, fsReader, globalHeap, groups, reads, lastOp>>
walkVars == <<walk>>
datatypeVars == <<dt>>
decodeVars == <<dec>>
lzfVars == <<lz>>
filterVars == <<fp>>
treeVars == <<tr>>
openFrame == <<readerVars, datasetVars, sessionVars, walkVars, datatypeVars, decodeVars, lzfVars, filterVars, treeVars>>
readerFrame == <<openVars, datasetVars, sessionVars, walkVars, datatypeVars, decodeVars, lzfVars, filterVars, treeVars>>
datasetFrame == <<openVars, readerVars, sessionVars, walkVars, datatypeVars, decodeVars, lzfVars, filterVars, treeVars>>
sessionFrame == <<openVars, readerVars, datasetVars, walkVars, datatypeVars, decodeVars, lzfVars, filterVars, treeVars>>
walkFrame == <<openVars, readerVars, datasetVars, sessionVars, datatypeVars, decodeVars, lzfVars, filterVars, treeVars>>
datatypeFrame == <<openVars, readerVars, datasetVars, sessionVars, walkVars, decodeVars, lzfVars, filterVars, treeVars>>
decodeFrame == <<openVars, readerVars, datasetVars, sessionVars, walkVars, datatypeVars, lzfVars, filterVars, treeVars>>
lzfFrame == <<openVars, readerVars, datasetVars, sessionVars, walkVars, datatypeVars, decodeVars, filterVars, treeVars>>
filterFrame == <<openVars, readerVars, datasetVars, sessionVars, walkVars, datatypeVars, decodeVars, lzfVars, treeVars>>
treeFrame == <<openVars, readerVars, datasetVars, sessionVars, walkVars, datatypeVars, decodeVars, lzfVars, filterVars>>

vars == <<data, opened, br, sr, brOut, srOut, rdOp, ds, dsReader, dsOut,
          image, file, fsReader, globalHeap, groups, reads, lastOp, walk, dt, dec, lz, fp, tr>>

(***************************************************************************)
(* Values shared by all parts.                                             *)
(***************************************************************************)
\* Values are records with a tag t, so that any two of them can be compared.
null == [t |-> "null"]
undefined == [t |-> "undefined"]
NotCalled == [t |-> "not called"]

Min(a, b) == IF a < b THEN a ELSE b

\* The value o, worked out once, and what follows from it.
Then(o, F(_)) == CHOOSE y \in {F(x) : x \in {o}} : TRUE

RECURSIVE Prod(_)
Prod(s) == IF Len(s) = 0 THEN 1 ELSE Head(s) * Prod(Tail(s))


(***************************************************************************)
(* The readers: hdf5.Reader, hdf5.BinaryReader, hdf5.StreamReader          *)
(***************************************************************************)
None == [t |-> "undefined"]
Num(v) == [t |-> "number", v |-> v]
Bool(v) == [t |-> "boolean", v |-> v]
Bytes(v) == [t |-> "Uint8Array", v |-> v]
Str(v) == [t |-> "string", v |-> v]

\* The outcome of a call: the reader after it, and the value returned or the
\* error thrown.
Ok(r, v) == [ok |-> TRUE, r |-> r, val |-> v]
Throw(r, e) == [ok |-> FALSE, r |-> r, val |-> [t |-> "error", v |-> e]]

EndOfFile == "Unexpected end of file"
NoReturn == "the call never returns"

new_BinaryReader(buffer) ==
    [kind |-> "BinaryReader", buf |-> buffer, offset |-> 0, position |-> 0]

\* The stream is the caller's seekable byte source, at position 0.
new_StreamReader(bytes) ==
    [kind |-> "StreamReader", buf |-> bytes, spos |-> 0, offset |-> 0,
     position |-> 0, window |-> 0, view |-> undefined]

\* get position(), the same in both classes.
Reader_position(r) == r.offset + r.position

\* The caller's stream: seek(at); read(n) returns the n bytes at `at`.
StreamRead(bytes, at, n) == SubSeq(bytes, at + 1, at + n)

WindowSize == 256

B_skip(r, n) ==
    LET r1 == [r EXCEPT !.position = @ + n]
    IN  IF r1.offset + r1.position > Len(r1.buf) THEN Throw(r1, EndOfFile)
        ELSE Ok(r1, None)

S_skip(r, n) ==
    LET r1 == [r EXCEPT !.position = @ + n]
    IN  IF r1.position + r1.offset > Len(r1.buf) THEN Throw(r1, EndOfFile)
        ELSE Ok(r1, None)

B_take(r, n) ==
    LET position == r.offset + r.position
        s == B_skip(r, n)
    IN  IF s.ok THEN Ok(s.r, position) ELSE s

S_take(r, n) ==
    LET position == Reader_position(r)
    IN  IF position + n > Len(r.buf) THEN Throw(r, EndOfFile)
        ELSE LET miss == \/ r.view = undefined
                         \/ position < r.window
                         \/ position + n > r.window + Len(r.view.bytes)
                 r1 == IF miss
                       THEN [r EXCEPT !.window = position,
                                      !.view = [t |-> "DataView", bytes |->
                                          StreamRead(r.buf, position,
                                              Min(WindowSize, Len(r.buf) - position))]]
                       ELSE r
             IN  Ok([r1 EXCEPT !.position = @ + n], position - r1.window)

\* seek without the test against the length.
B_seek_unchecked(r, p) == Ok([r EXCEPT !.offset = p, !.position = 0], None)

B_seek(r, p) ==
    LET r1 == [r EXCEPT !.offset = p, !.position = 0]
    IN  IF r1.offset > Len(r1.buf) THEN Throw(r1, EndOfFile) ELSE Ok(r1, None)

S_seek(r, p) ==
    LET r1 == [r EXCEPT !.offset = p, !.position = 0]
    IN  IF r1.offset > Len(r1.buf) THEN Throw(r1, EndOfFile) ELSE Ok(r1, None)

\* align on the position in the file instead of the position in the buffer.
B_align_file(r, mod) ==
    IF (r.offset + r.position) % mod # 0
    THEN Ok([r EXCEPT !.position = (((r.offset + r.position) \div mod) + 1) * mod - r.offset], None)
    ELSE Ok(r, None)

B_align(r, mod) ==
    IF r.position % mod # 0
    THEN Ok([r EXCEPT !.position = ((r.position \div mod) + 1) * mod], None)
    ELSE Ok(r, None)

S_align(r, mod) ==
    IF r.position % mod # 0
    THEN Ok([r EXCEPT !.position = ((r.position \div mod) + 1) * mod], None)
    ELSE Ok(r, None)

\* Virtual dispatch on the reader's class.
take(r, n) == IF r.kind = "BinaryReader" THEN B_take(r, n) ELSE S_take(r, n)
skip(r, n) == IF r.kind = "BinaryReader" THEN B_skip(r, n) ELSE S_skip(r, n)
seek(r, p) == IF r.kind = "BinaryReader" THEN B_seek(r, p) ELSE S_seek(r, p)
align(r, m) == IF r.kind = "BinaryReader" THEN B_align(r, m) ELSE S_align(r, m)

\* this._view: the whole buffer (BinaryReader) or the window (StreamReader);
\* the n bytes at `at` of it.
ViewBytes(r, at, n) ==
    IF r.kind = "BinaryReader" THEN SubSeq(r.buf, at + 1, at + n)
    ELSE SubSeq(r.view.bytes, at + 1, at + n)

getUint8(b) == b[1]
getInt8(b) == IF b[1] >= 128 THEN b[1] - 256 ELSE b[1]
getUint16(b) == b[1] + 256 * b[2]
getInt16(b) == IF getUint16(b) >= 32768 THEN getUint16(b) - 65536 ELSE getUint16(b)

Reader_byte(r) ==
    LET p == take(r, 1)
    IN  IF p.ok THEN Ok(p.r, Num(getUint8(ViewBytes(p.r, p.val, 1)))) ELSE p

Reader_int8(r) ==
    LET p == take(r, 1)
    IN  IF p.ok THEN Ok(p.r, Num(getInt8(ViewBytes(p.r, p.val, 1)))) ELSE p

Reader_uint16(r) ==
    LET p == take(r, 2)
    IN  IF p.ok THEN Ok(p.r, Num(getUint16(ViewBytes(p.r, p.val, 2)))) ELSE p

Reader_int16(r) ==
    LET p == take(r, 2)
    IN  IF p.ok THEN Ok(p.r, Num(getInt16(ViewBytes(p.r, p.val, 2)))) ELSE p

(***************************************************************************)
(* File.open                                                               *)
(***************************************************************************)
\* \x89HDF\r\n\x1A\n
signature == <<137, 72, 68, 70, 13, 10, 26, 10>>

MaxOpenLen == 9

\* The filler bytes that follow the signature in the inputs of File.open.
OpenBase == signature \o <<0, 1, 2, 3>>

\* Bytes a single position of an input is replaced by.
OpenBytes == {0, 10, 137}

\* The inputs of File.open: null, and byte slabs or streams of 0..MaxOpenLen bytes
\* that are a prefix of the signature followed by filler, with at most one byte
\* replaced (position 0: none replaced).
OpenInputs ==
    { [kind |-> "none", bytes |-> <<>>] } \cup
    { [kind |-> k,
       bytes |-> [i \in 1..n |-> IF i = m THEN b ELSE OpenBase[i]]] :
         k \in {"Uint8Array", "stream"}, n \in 0..MaxOpenLen,
         m \in 0..MaxOpenLen, b \in OpenBytes }

\* data.peek(8) of the caller's stream: the next 8 bytes of a stream positioned
\* at its start.
StreamPeek(d, n) == SubSeq(d.bytes, 1, n)

File_open_short(d) ==
    IF d.kind # "none" /\ Len(d.bytes) > 8
    THEN LET buffer == IF d.kind = "Uint8Array" THEN d.bytes ELSE StreamPeek(d, 8)
         IN  IF \A index \in 1..8 : signature[index] = buffer[index]
             THEN [t |-> "File", data |-> d]
             ELSE null
    ELSE null

\* static open(data): a File holding data, or null.
File_open(d) ==
    IF d.kind # "none" /\ Len(d.bytes) >= 8
    THEN LET buffer == IF d.kind = "Uint8Array" THEN d.bytes ELSE StreamPeek(d, 8)
         IN  IF \A index \in 1..8 : signature[index] = buffer[index]
             THEN [t |-> "File", data |-> d]
             ELSE null
    ELSE null

OpenInit ==
    /\ data \in OpenInputs
    /\ opened = NotCalled

OpenIdle ==
    /\ data = [kind |-> "none", bytes |-> <<>>]
    /\ opened = NotCalled

Open ==
    /\ opened = NotCalled
    /\ opened' = File_open(data)
    /\ UNCHANGED data
    /\ UNCHANGED openFrame

(***************************************************************************)
(* The readers, continued: peek, read, size, string, match, expect         *)
(***************************************************************************)
B_peek(r, length) ==
    LET position == r.offset + r.position
        p == B_take(r, length)
    IN  IF p.ok
        THEN Ok([p.r EXCEPT !.position = position - p.r.offset],
                Bytes(SubSeq(r.buf, position + 1, position + length)))
        ELSE p

\* StreamReader defines no peek, and neither does Reader: the call is a TypeError.
S_peek(r, length) == Throw(r, "TypeError: peek is not a function")

B_read(r, length) ==
    LET p == B_take(r, length)
    IN  IF p.ok THEN Ok(p.r, Bytes(SubSeq(r.buf, p.val + 1, p.val + length))) ELSE p

\* this._stream.seek(offset + position); this._stream.read(length) fails past
\* the end of the stream, before the stream's position is put back.
S_read(r, length) ==
    LET at == r.offset + r.position
    IN  IF at + length > Len(r.buf) THEN Throw([r EXCEPT !.spos = at], EndOfFile)
        ELSE LET s == S_skip(r, length)
             IN  IF s.ok THEN Ok(s.r, Bytes(StreamRead(r.buf, at, length))) ELSE s

\* while (this._buffer[position] !== terminator) position++: an index at or past
\* the end of the buffer reads undefined, which is never the terminator.
RECURSIVE B_size_scan(_, _, _)
B_size_scan(r, terminator, position) ==
    IF position >= Len(r.buf) THEN -1
    ELSE IF r.buf[position + 1] = terminator THEN position
    ELSE B_size_scan(r, terminator, position + 1)

B_size(r, terminator) ==
    LET position == B_size_scan(r, terminator, r.offset + r.position)
    IN  IF position = -1 THEN Throw(r, NoReturn)
        ELSE Ok(r, Num(position - r.offset - r.position + 1))

\* while (this.byte() !== terminator) size++
RECURSIVE S_size_scan(_, _, _)
S_size_scan(r, terminator, size) ==
    LET b == Reader_byte(r)
    IN  IF ~b.ok THEN b
        ELSE IF b.val.v = terminator THEN Ok(b.r, size)
        ELSE S_size_scan(b.r, terminator, size + 1)

S_size(r, terminator) ==
    LET position == r.position
        s == S_size_scan(r, terminator, 0)
    IN  IF s.ok THEN Ok([s.r EXCEPT !.position = position], Num(s.val)) ELSE s

peek(r, n) == IF r.kind = "BinaryReader" THEN B_peek(r, n) ELSE S_peek(r, n)
read(r, n) == IF r.kind = "BinaryReader" THEN B_read(r, n) ELSE S_read(r, n)
size(r, t) == IF r.kind = "BinaryReader" THEN B_size(r, t) ELSE S_size(r, t)

\* for (let i = 0; i < size; i++) data[i] = this.byte()
RECURSIVE ReadByteByByte(_, _, _)
ReadByteByByte(r, n, acc) ==
    IF n = 0 THEN Ok(r, Bytes(acc))
    ELSE LET b == Reader_byte(r)
         IN  IF b.ok THEN ReadByteByByte(b.r, n - 1, Append(acc, b.val.v)) ELSE b

\* TextDecoder.decode(data).replace(/\0/g, ''): the code points of the bytes
\* (bytes below 128 decode to themselves in ascii and in utf-8), NULs removed.
DecodeText(bytes) == SelectSeq(bytes, LAMBDA c : c # 0)

ShortString == 16

\* if (!size || size === -1) size = this.size(0x00)
StringSize(r, size0) ==
    IF size0 = 0 \/ size0 = -1 THEN size(r, 0) ELSE Ok(r, Num(size0))

\* size < 16: byte by byte; else read(size). new Uint8Array(size) throws a
\* RangeError for a negative size.
StringData(r, n) ==
    IF n < 0 THEN Throw(r, "RangeError: invalid typed array length")
    ELSE IF n < ShortString THEN ReadByteByByte(r, n, <<>>)
    ELSE read(r, n)

StringDecode(d) == IF d.ok THEN Ok(d.r, Str(DecodeText(d.val.v))) ELSE d

Reader_string(r, size0) ==
    LET sz == StringSize(r, size0)
    IN  IF sz.ok THEN StringDecode(StringData(sz.r, sz.val.v)) ELSE sz

RECURSIVE MatchFrom(_, _, _, _)
MatchFrom(r, sig, i, position) ==
    IF i > Len(sig) THEN Ok(r, Bool(TRUE))
    ELSE Then(Reader_byte(r),
              LAMBDA b :
                  IF ~b.ok THEN b
                  ELSE IF sig[i] # b.val.v
                       THEN LET s == seek(b.r, position)
                            IN  IF s.ok THEN Ok(s.r, Bool(FALSE)) ELSE s
                       ELSE MatchFrom(b.r, sig, i + 1, position))

Reader_match(r, sig) == MatchFrom(r, sig, 1, Reader_position(r))

Reader_expect(r, sig) ==
    LET m == Reader_match(r, sig)
    IN  IF ~m.ok THEN m
        ELSE IF m.val.v THEN Ok(m.r, None)
        ELSE Throw(m.r, "Invalid block signature")

\* seek(p); read(n); seek(p); read(n): both reads, or the first error.
SeekReadTwice(r, p, n) ==
    LET s1 == seek(r, p)
        r1 == IF s1.ok THEN read(s1.r, n) ELSE s1
        s2 == IF r1.ok THEN seek(r1.r, p) ELSE r1
        r2 == IF s2.ok THEN read(s2.r, n) ELSE s2
    IN  IF r2.ok THEN Ok(r2.r, [t |-> "two reads", first |-> r1.val, second |-> r2.val])
        ELSE r2

(***************************************************************************)
(* The readers' specification: the same calls on a BinaryReader and on a   *)
(* StreamReader over the same bytes.  An error is fatal to the decode: no  *)
(* call follows one.                                                       *)
(***************************************************************************)
MaxSrcLen == 2

SrcBytes == {0, 65, 200}

ReaderSources == UNION { [1..n -> SrcBytes] : n \in 0..MaxSrcLen }

Positions == 0..(MaxSrcLen + 1)

Moduli == {2, 4}

Signatures == << <<65>>, <<65, 65>>, <<65, 200>> >>

Out(o) == [ok |-> o.ok, val |-> o.val]

ReaderInit ==
    \E b \in ReaderSources :
        /\ br = new_BinaryReader(b)
        /\ sr = new_StreamReader(b)
        /\ brOut = Out(Ok(br, None))
        /\ srOut = Out(Ok(sr, None))
        /\ rdOp = [name |-> "new", a |-> 0, b |-> 0]

ReaderIdle ==
    /\ br = new_BinaryReader(<<>>)
    /\ sr = new_StreamReader(<<>>)
    /\ brOut = Out(Ok(br, None))
    /\ srOut = Out(Ok(sr, None))
    /\ rdOp = [name |-> "new", a |-> 0, b |-> 0]

Call(name, a, b, bo, so) ==
    /\ brOut.ok /\ srOut.ok
    /\ br' = bo.r
    /\ sr' = so.r
    /\ brOut' = Out(bo)
    /\ srOut' = Out(so)
    /\ rdOp' = [name |-> name, a |-> a, b |-> b]
    /\ UNCHANGED readerFrame

RdSeek == \E p \in Positions : Call("seek", p, 0, seek(br, p), seek(sr, p))
RdSkip == \E n \in 0..2 : Call("skip", n, 0, skip(br, n), skip(sr, n))
RdAlign == \E m \in Moduli : Call("align", m, 0, align(br, m), align(sr, m))
RdByte == Call("byte", 0, 0, Reader_byte(br), Reader_byte(sr))
RdInt8 == Call("int8", 0, 0, Reader_int8(br), Reader_int8(sr))
RdUint16 == Call("uint16", 0, 0, Reader_uint16(br), Reader_uint16(sr))
RdInt16 == Call("int16", 0, 0, Reader_int16(br), Reader_int16(sr))
RdRead == \E n \in 0..MaxSrcLen : Call("read", n, 0, read(br, n), read(sr, n))
RdPeek == \E n \in 0..MaxSrcLen : Call("peek", n, 0, peek(br, n), peek(sr, n))
RdSize == \E t \in {0, 65} : Call("size", t, 0, size(br, t), size(sr, t))
RdString ==
    \E n \in -1..2 : Call("string", n, 0, Reader_string(br, n), Reader_string(sr, n))
RdMatch ==
    \E i \in 1..Len(Signatures) :
        Call("match", i, 0, Reader_match(br, Signatures[i]), Reader_match(sr, Signatures[i]))
RdExpect ==
    \E i \in 1..Len(Signatures) :
        Call("expect", i, 0, Reader_expect(br, Signatures[i]), Reader_expect(sr, Signatures[i]))
RdSeekReadTwice ==
    \E p \in Positions, n \in 0..MaxSrcLen :
        Call("seek read seek read", p, n, SeekReadTwice(br, p, n), SeekReadTwice(sr, p, n))

ReaderNext ==
    \/ RdSeek \/ RdSkip \/ RdAlign
    \/ RdByte \/ RdInt8 \/ RdUint16 \/ RdInt16
    \/ RdRead \/ RdPeek \/ RdSize \/ RdString
    \/ RdMatch \/ RdExpect \/ RdSeekReadTwice

(***************************************************************************)
(* hdf5.DataLayout and hdf5.Variable.data                                  *)
(***************************************************************************)
Unsupported(what) == [ok |-> FALSE, val |-> [t |-> "error", v |-> what]]

\* new hdf5.DataLayout(reader), from the fields of the message w as they lie on
\* the wire (w.address: a number, or -1 for the undefined address).  A property
\* that the constructor does not set reads as undefined.
DataLayout_v1(w) ==
    IF w.layoutClass \in {1, 2}
    THEN [ok |-> TRUE,
          val |-> [dimensionality |-> w.dimensionality,
                   layoutClass |-> w.layoutClass,
                   address |-> w.address,
                   dimensionSizes |-> SubSeq(w.dims, 1, w.dimensionality - 1),
                   datasetElementSize |->
                       IF w.layoutClass = 2 THEN Num(w.elementSize) ELSE undefined,
                   size |-> undefined]]
    ELSE Unsupported("data layout class")

DataLayout_v3(w) ==
    CASE w.layoutClass = 0 ->
           [ok |-> TRUE,
            val |-> [dimensionality |-> undefined, layoutClass |-> 0,
                     address |-> w.address, dimensionSizes |-> undefined,
                     datasetElementSize |-> undefined, size |-> Num(w.size)]]
      [] w.layoutClass = 1 ->
           [ok |-> TRUE,
            val |-> [dimensionality |-> undefined, layoutClass |-> 1,
                     address |-> w.address, dimensionSizes |-> undefined,
                     datasetElementSize |-> undefined, size |-> Num(w.size)]]
      [] w.layoutClass = 2 ->
           [ok |-> TRUE,
            val |-> [dimensionality |-> w.dimensionality, layoutClass |-> 2,
                     address |-> w.address,
                     dimensionSizes |-> SubSeq(w.dims, 1, w.dimensionality - 1),
                     datasetElementSize |-> Num(w.elementSize), size |-> undefined]]
      [] OTHER -> Unsupported("data layout class")

DataLayout(w) ==
    CASE w.version \in {1, 2} -> DataLayout_v1(w)
      [] w.version = 3 -> DataLayout_v3(w)
      [] OTHER -> Unsupported("data layout version")

\* BinaryReader.stream(length): a new BinaryReader over the next length bytes.
\* An undefined length makes _position NaN, which is past nothing, and
\* subarray(position, NaN) is empty.
B_stream(r, length) ==
    IF length = undefined
    THEN Ok([r EXCEPT !.position = "NaN"], new_BinaryReader(<<>>))
    ELSE IF B_take(r, length.v).ok
    THEN Ok(B_take(r, length.v).r,
            new_BinaryReader(SubSeq(r.buf, B_take(r, length.v).val + 1,
                                    B_take(r, length.v).val + length.v)))
    ELSE B_take(r, length.v)

\* case 1 of Variable.data: seek(address); stream(size); seek(position).
ContiguousStream(r, layout) ==
    LET s1 == B_seek(r, layout.address)
        st == IF s1.ok THEN B_stream(s1.r, layout.size) ELSE s1
        s2 == IF st.ok THEN B_seek(st.r, Reader_position(r)) ELSE st
    IN  IF s2.ok THEN Ok(s2.r, st.val) ELSE s2

ContiguousData(r, layout) ==
    IF layout.address # 0 /\ layout.address # -1
    THEN ContiguousStream(r, layout)
    ELSE Ok(r, null)

\* data_strides: the row-major strides of data_shape.
Strides(shape) == [i \in 1..Len(shape) |-> Prod(SubSeq(shape, i + 1, Len(shape)))]

Zeros(n) == [i \in 1..n |-> 0]

\* chunk[k] of a Uint8Array: undefined past its end, which is stored as 0.
ChunkByte(chunk, k) == IF k < Len(chunk) THEN chunk[k + 1] ELSE 0

\* The carry that forgets data_pos[i] = chunk_offset[i].
CarryAt_keep(i, c, chunk_offset) ==
    [chunk_pos |-> [k \in 1..Len(c.chunk_pos) |->
                       IF k = i + 1 THEN 0
                       ELSE IF k = i /\ i > 0 THEN c.chunk_pos[k] + 1
                       ELSE c.chunk_pos[k]],
     data_pos |-> [k \in 1..Len(c.data_pos) |->
                       IF k = i /\ i > 0 THEN c.data_pos[k] + 1
                       ELSE c.data_pos[k]]]

\* One pass of the carry loop at axis i (0-based), on c = [chunk_pos, data_pos].
CarryAt(i, c, chunk_offset) ==
    [chunk_pos |-> [k \in 1..Len(c.chunk_pos) |->
                       IF k = i + 1 THEN 0
                       ELSE IF k = i /\ i > 0 THEN c.chunk_pos[k] + 1
                       ELSE c.chunk_pos[k]],
     data_pos |-> [k \in 1..Len(c.data_pos) |->
                       IF k = i + 1 THEN chunk_offset[k]
                       ELSE IF k = i /\ i > 0 THEN c.data_pos[k] + 1
                       ELSE c.data_pos[k]]]

\* for (let i = max_dim; i >= 0; i--) if (chunk_pos[i] >= chunk_shape[i]) ... else break
RECURSIVE Carry(_, _, _, _)
Carry(i, c, chunk_shape, chunk_offset) ==
    IF i < 0 THEN c
    ELSE IF c.chunk_pos[i + 1] >= chunk_shape[i + 1]
    THEN Carry(i - 1, CarryAt(i, c, chunk_offset), chunk_shape, chunk_offset)
    ELSE c

\* The bounds loop that tests only the slowest axis.
RECURSIVE TargetIndex_first(_, _, _, _, _, _)
TargetIndex_first(i, length, data_pos, data_shape, data_strides, index) ==
    IF i >= length THEN index
    ELSE IF i = 0 /\ data_pos[i + 1] >= data_shape[i + 1] THEN -1
    ELSE TargetIndex_first(i + 1, length, data_pos, data_shape, data_strides,
                           index + data_pos[i + 1] * data_strides[i + 1])

\* The bounds loop over i < length: -1 when data_pos leaves data_shape (inbounds
\* false), else the element index.
RECURSIVE TargetIndex(_, _, _, _, _, _)
TargetIndex(i, length, data_pos, data_shape, data_strides, index) ==
    IF i >= length THEN index
    ELSE IF data_pos[i + 1] >= data_shape[i + 1] THEN -1
    ELSE TargetIndex(i + 1, length, data_pos, data_shape, data_strides,
                     index + data_pos[i + 1] * data_strides[i + 1])

\* while (target_offset < target_end) data[target_offset++] = chunk[chunk_offset++]
CopyItem(out, chunk, chunk_index, index, item_size) ==
    [k \in 1..Len(out) |->
        IF index * item_size <= k - 1 /\ k - 1 < index * item_size + item_size
        THEN ChunkByte(chunk, chunk_index * item_size + (k - 1 - index * item_size))
        ELSE out[k]]

\* chunk_pos[max_dim]++; data_pos[max_dim]++
Advance(c, max_dim) ==
    [chunk_pos |-> [k \in 1..Len(c.chunk_pos) |->
                       IF k = max_dim + 1 THEN c.chunk_pos[k] + 1 ELSE c.chunk_pos[k]],
     data_pos |-> [k \in 1..Len(c.data_pos) |->
                       IF k = max_dim + 1 THEN c.data_pos[k] + 1 ELSE c.data_pos[k]]]

\* The loop over chunk_index of one node; v holds the loop's constants.
RECURSIVE ScatterChunk(_, _, _, _, _)
ScatterChunk(chunk_index, c0, out, node, v) ==
    IF chunk_index >= v.chunk_size THEN out
    ELSE LET c == Carry(v.max_dim, c0, v.chunk_shape, node.fields)
             index == TargetIndex(0, Len(node.fields) - 1, c.data_pos, v.data_shape,
                                  v.data_strides, 0)
         IN  ScatterChunk(chunk_index + 1, Advance(c, v.max_dim),
                          IF index # -1
                          THEN CopyItem(out, node.data, chunk_index, index, v.item_size)
                          ELSE out,
                          node, v)

\* for (const node of tree.nodes)
RECURSIVE ScatterNodes(_, _, _)
ScatterNodes(nodes, out, v) ==
    IF Len(nodes) = 0 THEN out
    ELSE ScatterNodes(Tail(nodes),
                      ScatterChunk(0, [chunk_pos |-> Zeros(Len(Head(nodes).fields)),
                                       data_pos |-> Head(nodes).fields],
                                   out, Head(nodes), v),
                      v)

\* case 2 of Variable.data, given tree.nodes.
ChunkedData(nodes, layout, data_shape) ==
    LET v == [item_size |-> layout.datasetElementSize.v,
              chunk_shape |-> layout.dimensionSizes,
              data_shape |-> data_shape,
              chunk_size |-> Prod(layout.dimensionSizes),
              max_dim |-> Len(data_shape) - 1,
              data_strides |-> Strides(data_shape)]
    IN  Bytes(ScatterNodes(nodes, Zeros(Prod(data_shape) * v.item_size), v))

\* new hdf5.Tree(reader, offset, dimensionality) of raw data chunks, whose
\* nodes are given parsed: the tree seeks its offset and seeks back.
Tree_chunks(r, offset, nodes) ==
    LET s1 == seek(r, offset)
        s2 == IF s1.ok THEN seek(s1.r, Reader_position(r)) ELSE s1
    IN  IF s2.ok THEN Ok(s2.r, nodes) ELSE s2

\* case 2 of Variable.data.
ChunkedTreeData(r, d) ==
    LET tree == Tree_chunks(r, d.dataLayout.address, d.nodes)
    IN  IF tree.ok THEN Ok(tree.r, ChunkedData(tree.val, d.dataLayout, d.shape))
        ELSE tree

\* get data() of a Variable d over the file's reader r.
Variable_data(r, d) ==
    CASE d.dataLayout.layoutClass = 1 -> ContiguousData(r, d.dataLayout)
      [] d.dataLayout.layoutClass = 2 -> ChunkedTreeData(r, d)
      [] OTHER -> Throw(r, "Unsupported data layout class")

(***************************************************************************)
(* The datasets' specification: Variable.data of one dataset.              *)
(***************************************************************************)
Ranks == 0..3
MaxDim == 3
MaxChunk == 2
MaxCells == 8

Shapes == { sh \in UNION { [1..n -> 1..MaxDim] : n \in Ranks } : Prod(sh) <= MaxCells }
ChunkShapes(rank) == [1..rank -> 1..MaxChunk]
ItemSizes == {1, 2}

\* The offsets of the chunks that tile data_shape, in row-major order.
RECURSIVE Grid(_, _)
Grid(shape, cs) ==
    IF Len(shape) = 0 THEN << <<>> >>
    ELSE [k \in 1..(((Head(shape) + Head(cs) - 1) \div Head(cs))
                        * Len(Grid(Tail(shape), Tail(cs)))) |->
            << ((k - 1) \div Len(Grid(Tail(shape), Tail(cs)))) * Head(cs) >>
            \o Grid(Tail(shape), Tail(cs))[((k - 1) % Len(Grid(Tail(shape), Tail(cs)))) + 1]]

\* The k-th chunk of the tiling: its bytes are numbered, so that every byte of
\* every chunk differs from every other and from 0.
ChunkNode(k, offset, nbytes) ==
    [data |-> [j \in 1..nbytes |-> (k - 1) * nbytes + j],
     fields |-> offset \o <<0>>,
     filterMask |-> 0]

\* tree.nodes of a chunked dataset: the chunks of the tiling, without chunk
\* number `drop` (0: none is missing).
ChunkNodes(shape, cs, item_size, drop) ==
    LET g == Grid(shape, cs)
        all == [k \in 1..Len(g) |-> ChunkNode(k, g[k], Prod(cs) * item_size)]
    IN  SelectSeq(all, LAMBDA n : drop = 0 \/ n # all[drop])

ChunkedDatasetsOf(sh) ==
    { [wire |-> [version |-> ver, layoutClass |-> 2, dimensionality |-> Len(sh) + 1,
                 address |-> 2, dims |-> cs, elementSize |-> it, size |-> 0],
       shape |-> sh, elemSize |-> it, file |-> <<0, 0>>,
       nodes |-> ChunkNodes(sh, cs, it, IF dr = 2 THEN Len(Grid(sh, cs)) ELSE dr)] :
         ver \in {1, 3}, it \in ItemSizes, dr \in 0..2, cs \in ChunkShapes(Len(sh)) }

ChunkedDatasets == UNION { ChunkedDatasetsOf(sh) : sh \in Shapes }

\* A contiguous or compact dataset: its bytes lie at the address, numbered.
FlatDatasets ==
    { [wire |-> [version |-> ver, layoutClass |-> cl, dimensionality |-> Len(sh) + 1,
                 address |-> ad, dims |-> sh, elementSize |-> it,
                 size |-> Prod(sh) * it],
       shape |-> sh, elemSize |-> it,
       file |-> [i \in 1..(2 + Prod(sh) * it) |-> i],
       nodes |-> <<>>] :
         ver \in {1, 2, 3}, cl \in {0, 1}, ad \in {-1, 0, 2}, it \in ItemSizes,
         sh \in { x \in Shapes : Len(x) <= 1 } }

DatasetInit ==
    /\ ds \in ChunkedDatasets \cup FlatDatasets
    /\ dsReader = new_BinaryReader(ds.file)
    /\ dsOut = NotCalled

DatasetIdle ==
    /\ ds = [shape |-> <<>>]
    /\ dsReader = new_BinaryReader(<<>>)
    /\ dsOut = NotCalled

\* The Variable of a dataset whose Data Layout message has been parsed.
Variable_of(d) ==
    [dataLayout |-> DataLayout(d.wire).val, shape |-> d.shape, nodes |-> d.nodes]

\* The object header's Data Layout message is parsed, then data is read.
ReadData ==
    /\ dsOut = NotCalled
    /\ DataLayout(ds.wire).ok
    /\ dsOut' = Out(Variable_data(dsReader, Variable_of(ds)))
    /\ dsReader' = Variable_data(dsReader, Variable_of(ds)).r
    /\ UNCHANGED ds
    /\ UNCHANGED datasetFrame

\* The Data Layout message is rejected.
RejectLayout ==
    /\ dsOut = NotCalled
    /\ ~DataLayout(ds.wire).ok
    /\ dsOut' = DataLayout(ds.wire)
    /\ UNCHANGED <<ds, dsReader>>
    /\ UNCHANGED datasetFrame

(***************************************************************************)
(* hdf5.File.read: the superblock                                          *)
(***************************************************************************)
getUint32(b) == b[1] + 256 * b[2] + 65536 * b[3] + 16777216 * b[4]

\* The bytes of a number, least significant first, without the zeros on top.
RECURSIVE Trim(_)
Trim(b) == IF Len(b) > 0 /\ b[Len(b)] = 0 THEN Trim(SubSeq(b, 1, Len(b) - 1)) ELSE b

\* The Number whose unsigned little-endian bytes are b (4 or 8 of them): an
\* integer below 2^31, and above that the bytes themselves.
Uint(b) ==
    IF Len(Trim(b)) < 4 \/ (Len(Trim(b)) = 4 /\ b[4] < 128)
    THEN Num(getUint32(b))
    ELSE [t |-> "number", big |-> Trim(b)]

Reader_uint32(r) ==
    LET p == take(r, 4)
    IN  IF p.ok THEN Ok(p.r, Uint(ViewBytes(p.r, p.val, 4))) ELSE p

AllOnes(b) == \A i \in 1..Len(b) : b[i] = 255

\* b >= c, of two unsigned numbers of as many bytes.
AtLeast(b, c) ==
    \A i \in 1..Len(b) : (\A j \in (i + 1)..Len(b) : b[j] = c[j]) => b[i] >= c[i]

\* Number.MAX_SAFE_INTEGER, 2^53 - 1, in 8 bytes.
MAX_SAFE_INTEGER == <<255, 255, 255, 255, 255, 255, 31, 0>>

\* value.toNumber() of a BigInt below 2^53: the Number of the same value.
BigInt_toNumber(b) == Uint(b)

\* offset() with _offsetSize 8: 0xffffffffffffffff reads as -1, and a value
\* of Number.MAX_SAFE_INTEGER or more throws.
Reader_offset8(r) ==
    LET p == take(r, 8)
    IN  IF ~p.ok THEN p
        ELSE IF AllOnes(ViewBytes(p.r, p.val, 8)) THEN Ok(p.r, Num(-1))
        ELSE IF AtLeast(ViewBytes(p.r, p.val, 8), MAX_SAFE_INTEGER)
        THEN Throw(p.r, "64-bit value exceeds safe integer.")
        ELSE Ok(p.r, BigInt_toNumber(ViewBytes(p.r, p.val, 8)))

\* offset() with _offsetSize 4: 0xffffffff reads as undefined.
Reader_offset4(r) ==
    LET p == take(r, 4)
    IN  IF ~p.ok THEN p
        ELSE IF AllOnes(ViewBytes(p.r, p.val, 4)) THEN Ok(p.r, undefined)
        ELSE Ok(p.r, Uint(ViewBytes(p.r, p.val, 4)))

\* offset(), the reader's _offsetSize being offsetSize.
Reader_offset(r, offsetSize) ==
    CASE offsetSize = 8 -> Reader_offset8(r)
      [] offsetSize = 4 -> Reader_offset4(r)
      [] OTHER -> Throw(r, "Unsupported offset size")

\* length(), the reader's _lengthSize being lengthSize: the cases of offset().
Reader_length(r, lengthSize) ==
    CASE lengthSize = 8 -> Reader_offset8(r)
      [] lengthSize = 4 -> Reader_offset4(r)
      [] OTHER -> Throw(r, "Unsupported length size")

\* A step of a constructor: the value read by `rd` is stored in the field of
\* the object under construction, o.val; an exception ends the constructor.
Put(o, field, rd) ==
    IF ~o.ok THEN o
    ELSE IF rd.ok THEN Ok(rd.r, [o.val EXCEPT ![field] = rd.val])
    ELSE rd

\* A step that reads or skips and stores nothing.
Pass(o, rd) ==
    IF ~o.ok THEN o
    ELSE IF rd.ok THEN Ok(rd.r, o.val)
    ELSE rd

\* this.<field> = reader.byte(), and the like.
PutByte(o, field) == Then(o, LAMBDA x : Put(x, field, Reader_byte(x.r)))
PutUint32(o, field) == Then(o, LAMBDA x : Put(x, field, Reader_uint32(x.r)))
PutOffset(o, field, offsetSize) == Then(o, LAMBDA x : Put(x, field, Reader_offset(x.r, offsetSize)))

\* reader.byte(), and the like, the value dropped.
PassByte(o) == Then(o, LAMBDA x : Pass(x, Reader_byte(x.r)))
PassUint16(o) == Then(o, LAMBDA x : Pass(x, Reader_uint16(x.r)))
PassOffset(o, offsetSize) == Then(o, LAMBDA x : Pass(x, Reader_offset(x.r, offsetSize)))
PassSkip(o, n) == Then(o, LAMBDA x : Pass(x, skip(x.r, n)))
PassSeek(o, position) == Then(o, LAMBDA x : Pass(x, seek(x.r, position)))

\* case 1 of the cache type: treeAddress, heapAddress, seek(position).
SymbolTableEntry_scratch(o, offsetSize) ==
    PassSeek(PutOffset(PutOffset(o, "treeAddress", offsetSize), "heapAddress", offsetSize),
             Reader_position(o.r))

SymbolTableEntry_cache(o, offsetSize) ==
    IF ~o.ok THEN o
    ELSE CASE o.val.cacheType = Num(0) -> o
           [] o.val.cacheType = Num(1) -> SymbolTableEntry_scratch(o, offsetSize)
           [] OTHER -> Throw(o.r, "Unsupported cache type")

NoEntry ==
    [linkNameOffset |-> undefined, objectHeaderAddress |-> undefined,
     cacheType |-> undefined, treeAddress |-> undefined, heapAddress |-> undefined]

\* new hdf5.SymbolTableEntry(reader)
SymbolTableEntry(r, offsetSize) ==
    PassSkip(
        SymbolTableEntry_cache(
            PassSkip(
                PutUint32(
                    PutOffset(
                        PutOffset(Ok(r, NoEntry), "linkNameOffset", offsetSize),
                        "objectHeaderAddress", offsetSize),
                    "cacheType"),
                4),
            offsetSize),
        16)

\* The File under construction by read().
NoFields ==
    [version |-> undefined, offsetSize |-> undefined, lengthSize |-> undefined,
     baseAddress |-> undefined, endOfFileAddress |-> undefined,
     rootGroupEntry |-> null, rootAddress |-> undefined]

\* reader.initialize()
Reader_initialize(o) == PutByte(PutByte(o, "offsetSize"), "lengthSize")

OffsetSize(o) == IF o.val.offsetSize = undefined THEN 0 ELSE o.val.offsetSize.v

\* case 0, case 1 of read(), up to the addresses: _freeSpaceStorageVersion,
\* _rootGroupEntryVersion, skip(1), _sharedHeaderMessageVersionFormat,
\* initialize(), skip(1), _groupLeafNodeK, _groupInternalNodeK, skip(4).
Superblock_v0_head(o) ==
    PassSkip(
        PassUint16(PassUint16(
            PassSkip(
                Reader_initialize(PassByte(PassSkip(PassByte(PassByte(o)), 1))),
                1))),
        4)

\* What `this.skip(2)` comes to: the File has no method skip.
File_skip(o, n) ==
    IF o.ok THEN Throw(o.r, "TypeError: this.skip is not a function") ELSE o

\* if (version > 0) { _indexedStorageInternalNodeK = reader.uint16(); this.skip(2); }
Superblock_v1_extra(o) ==
    IF ~o.ok \/ o.val.version = Num(0) THEN o
    ELSE File_skip(PassUint16(o), 2)

\* _baseAddress, the free space info, _endOfFileAddress, the driver information.
Superblock_v0_addresses(o) ==
    PassOffset(
        PutOffset(
            PassOffset(PutOffset(o, "baseAddress", OffsetSize(o)), OffsetSize(o)),
            "endOfFileAddress", OffsetSize(o)),
        OffsetSize(o))

\* if (this._baseAddress !== 0) throw; new hdf5.SymbolTableEntry(reader)
Superblock_v0_root(o) ==
    IF o.ok /\ o.val.baseAddress # Num(0)
    THEN Throw(o.r, "Base address is not zero.")
    ELSE Put(o, "rootGroupEntry", SymbolTableEntry(o.r, OffsetSize(o)))

Superblock_v0(o) ==
    Superblock_v0_root(Superblock_v0_addresses(Superblock_v1_extra(Superblock_v0_head(o))))

\* _baseAddress, _superBlockExtensionAddress, _endOfFileAddress and the
\* address of the root's object header.
Superblock_v2_addresses(o) ==
    PutOffset(
        PutOffset(
            PassOffset(PutOffset(o, "baseAddress", OffsetSize(o)), OffsetSize(o)),
            "endOfFileAddress", OffsetSize(o)),
        "rootAddress", OffsetSize(o))

\* case 2, case 3 of read(), up to the address of the root's object header.
Superblock_v2(o) == Superblock_v2_addresses(PassByte(Reader_initialize(o)))

Superblock_version(o) ==
    IF ~o.ok THEN o
    ELSE CASE o.val.version \in {Num(0), Num(1)} -> Superblock_v0(o)
           [] o.val.version \in {Num(2), Num(3)} -> Superblock_v2(o)
           [] OTHER -> Throw(o.r, "Unsupported Superblock version")

\* read(), from Reader.open(data) to the end of the superblock.
Superblock(bytes) ==
    Superblock_version(PutByte(PassSkip(Ok(new_BinaryReader(bytes), NoFields), 8), "version"))

(***************************************************************************)
(* The structures behind the superblock.  Object headers, B-trees, heaps   *)
(* and global heap collections are held parsed, by address, in the image   *)
(* (img.objects, img.trees, img.heaps, img.collections); what the model    *)
(* keeps of their constructors is the movement of the shared reader.       *)
(***************************************************************************)
\* const position = reader.position; reader.seek(offset); ...parse...;
\* reader.seek(position): the structure at `offset`, or the error of a parse
\* that finds none there.
Parsed(r, offset, table, error) ==
    LET s1 == seek(r, offset)
    IN  IF ~s1.ok THEN s1
        ELSE IF offset \notin DOMAIN table THEN Throw(s1.r, error)
        ELSE Pass(Ok(s1.r, table[offset]), seek(s1.r, Reader_position(r)))

\* new hdf5.DataObjectHeader(reader, offset)
DataObjectHeader(r, offset, img) ==
    Parsed(r, offset, img.objects, "Unsupported data object header version")

\* new hdf5.Heap(reader, offset)
Heap(r, offset, img) ==
    Parsed(r, offset, img.heaps, "Invalid 'HEAP' block signature.")

\* heap.getString(offset): seek(_dataAddress + offset); string; seek(position)
Heap_getString(r, heap, offset) ==
    LET s1 == seek(r, heap.dataAddress + offset)
    IN  IF ~s1.ok THEN s1
        ELSE Pass(Ok(s1.r, heap.strings[offset]), seek(s1.r, Reader_position(r)))

\* new hdf5.Tree(reader, offset) of group nodes: the entries of its
\* SymbolTableNodes.
Tree_groups(r, offset, img) ==
    Parsed(r, offset, img.trees, "Invalid 'TREE' block signature.")

\* globalHeap.get(globalHeapID): the collection is loaded once; val is the
\* object (or null) and the collections loaded so far.
GlobalHeap_get(r, gh, id, img) ==
    LET c == IF id.address \in gh THEN Ok(r, img.collections[id.address])
             ELSE Parsed(r, id.address, img.collections, "Invalid 'GCOL' block signature.")
    IN  IF ~c.ok THEN c
        ELSE Ok(c.r, [object |-> IF id.objectIndex \in DOMAIN c.val
                                 THEN c.val[id.objectIndex] ELSE null,
                      gh |-> gh \cup {id.address}])

\* globalHeapObject.reader(): seeks the shared reader and returns it.
GlobalHeapObject_reader(r, object) == seek(r, object.position)

\* reader.string(reader.length(), ...) on the reader of a heap object.
HeapObject_string(r, object, lengthSize) ==
    LET s1 == GlobalHeapObject_reader(r, object)
        s2 == Pass(s1, skip(s1.r, lengthSize))
        s3 == Pass(s2, skip(s2.r, Len(object.text)))
    IN  IF s3.ok THEN Ok(s3.r, Str(object.text)) ELSE s3

\* The string of the object that globalHeap.get returned (o), or null.
DecodeHeapObject(o, gh, lengthSize) ==
    IF ~o.ok THEN [o EXCEPT !.val = [gh |-> gh, error |-> o.val]]
    ELSE IF o.val.object = null THEN Ok(o.r, [value |-> null, gh |-> o.val.gh])
    ELSE IF HeapObject_string(o.r, o.val.object, lengthSize).ok
    THEN Ok(HeapObject_string(o.r, o.val.object, lengthSize).r,
            [value |-> HeapObject_string(o.r, o.val.object, lengthSize).val,
             gh |-> o.val.gh])
    ELSE [HeapObject_string(o.r, o.val.object, lengthSize)
            EXCEPT !.val = [gh |-> o.val.gh, error |-> @]]

\* datatype.decode(data, globalHeap), case 9: data is what Datatype.read left,
\* { length, globalHeapID }; of anything else data.globalHeapID is undefined.
Datatype_decode_vlen(r, gh, d, img, lengthSize) ==
    IF d.t # "vlen"
    THEN [ok |-> FALSE, r |-> r,
          val |-> [gh |-> gh, error |-> [t |-> "error", v |-> "TypeError: globalHeapID is undefined"]]]
    ELSE DecodeHeapObject(GlobalHeap_get(r, gh, d.globalHeapID, img), gh, lengthSize)

\* The attribute and its value after _decodeArray has decoded data[0] (o).
DecodedArray(o, attr) ==
    IF ~o.ok THEN o
    ELSE Ok(o.r, [value |-> [t |-> "Array", v |-> <<o.val.value>>],
                  gh |-> o.val.gh,
                  attr |-> [attr EXCEPT !.data = <<o.val.value>>]])

\* attribute.decodeValue(globalHeap): a scalar of fixed size decodes to its
\* data; an array of one variable-length string is decoded in place
\* (Dataspace._decodeArray: data[i] = datatype.decode(data[i], globalHeap)).
Attribute_decodeValue(r, gh, attr, img, lengthSize) ==
    IF attr.dimensions = 0
    THEN Ok(r, [value |-> attr.data, gh |-> gh, attr |-> attr])
    ELSE DecodedArray(Datatype_decode_vlen(r, gh, attr.data[1], img, lengthSize), attr)

\* A Map: its keys in insertion order and its values.
new_Map == [t |-> "Map", keys |-> <<>>, get |-> <<>>]

Map_set(m, key, value) ==
    [t |-> "Map",
     keys |-> IF \E i \in 1..Len(m.keys) : m.keys[i] = key THEN m.keys
              ELSE Append(m.keys, key),
     get |-> (key :> value) @@ m.get]

(***************************************************************************)
(* hdf5.Group                                                              *)
(***************************************************************************)
\* The path without the case of the parent '/'.
Group_path_plain(parentPath, name) == parentPath \o "/" \o name

\* this._path = parentPath === '/' ? (parentPath + name) : `${parentPath}/${name}`
Group_path(parentPath, name) ==
    IF parentPath = "/" THEN parentPath \o name ELSE parentPath \o "/" \o name

\* new hdf5.Group(reader, entry, objectHeader, globalHeap, parentPath, name)
new_Group(entry, objectHeader, parentPath, name) ==
    [entry |-> entry, dataObjectHeader |-> objectHeader,
     attributes |-> undefined, value |-> undefined, groups |-> undefined,
     name |-> name, path |-> Group_path(parentPath, name)]

\* The test that never finds the attributes decoded.
AttributesDecoded_never(g) == FALSE

\* !(!this._attributes)
AttributesDecoded(g) == g.attributes # undefined

\* if (this._reader.position !== 0) { this._reader.seek(0); }
SeekZero(r) == IF Reader_position(r) # 0 THEN seek(r, 0).r ELSE r

\* The Variable of a header with datatype, dataspace and data layout, or null.
Group_value(hdr) ==
    IF hdr.dataset = null THEN null
    ELSE [t |-> "Variable", dataLayout |-> DataLayout(hdr.dataset.wire).val,
          shape |-> hdr.dataset.shape, nodes |-> <<>>]

ObjectOutcome(ok, r, gh, val, g) == [ok |-> ok, r |-> r, gh |-> gh, val |-> val, g |-> g]

\* for (const attribute of this._dataObjectHeader.attributes) { value =
\* attribute.decodeValue(globalHeap); this._attributes.set(name, value) }, from
\* attribute i on, o being the outcome of its decodeValue; then this._value and
\* the seek to 0.
RECURSIVE DecodeAttributes(_, _, _, _, _)
DecodeAttributes(i, o, g, img, lengthSize) ==
    IF i > Len(g.dataObjectHeader.attributes)
    THEN ObjectOutcome(TRUE, SeekZero(o.r), o.val.gh, None,
                       [g EXCEPT !.value = Group_value(g.dataObjectHeader)])
    ELSE IF ~o.ok
    THEN ObjectOutcome(FALSE, o.r, o.val.gh, o.val.error, g)
    ELSE DecodeAttributes(i + 1,
            IF i + 1 > Len(g.dataObjectHeader.attributes) THEN o
            ELSE Attribute_decodeValue(o.r, o.val.gh, g.dataObjectHeader.attributes[i + 1],
                                       img, lengthSize),
            [g EXCEPT !.dataObjectHeader.attributes[i] = o.val.attr,
                      !.attributes = Map_set(@, g.dataObjectHeader.attributes[i].name,
                                             o.val.value)],
            img, lengthSize)

\* The body of if (!this._attributes) { this._attributes = new Map(); ... }.
DecodeDataObject_attributes(g, r, gh, img, lengthSize) ==
    DecodeAttributes(1,
        IF Len(g.dataObjectHeader.attributes) = 0
        THEN Ok(r, [gh |-> gh])
        ELSE Attribute_decodeValue(r, gh, g.dataObjectHeader.attributes[1], img, lengthSize),
        [g EXCEPT !.attributes = new_Map], img, lengthSize)

\* _decodeDataObject() once this._dataObjectHeader is there (h: its parse).
DecodeDataObject_header(h, g, gh, img, lengthSize) ==
    IF ~h.ok THEN ObjectOutcome(FALSE, h.r, gh, h.val, g)
    ELSE IF AttributesDecoded(g)
    THEN ObjectOutcome(TRUE, SeekZero(h.r), gh, None, [g EXCEPT !.dataObjectHeader = h.val])
    ELSE DecodeDataObject_attributes([g EXCEPT !.dataObjectHeader = h.val],
                                     h.r, gh, img, lengthSize)

\* group._decodeDataObject(): the group, the reader and the global heap after it.
Group_decodeDataObject(g, r, gh, img, lengthSize) ==
    DecodeDataObject_header(
        IF g.dataObjectHeader = null
        THEN DataObjectHeader(r, g.entry.objectHeaderAddress.v, img)
        ELSE Ok(r, g.dataObjectHeader),
        g, gh, img, lengthSize)

\* this._groups.set(name, group), the group being kept under its parent's id
\* followed by its name.
SetChild(tbl, gid, name, child) ==
    (Append(gid, name) :> child) @@
        [tbl EXCEPT ![gid].groups = Map_set(@, name, Append(gid, name))]

GroupsOutcome(ok, r, gh, val, tbl) ==
    [ok |-> ok, r |-> r, gh |-> gh, val |-> val, tbl |-> tbl]

\* for (const entry of node.entries): name = heap.getString(entry.linkNameOffset);
\* new hdf5.Group(reader, entry, null, globalHeap, this._path, name)
RECURSIVE AddEntries(_, _, _, _, _, _, _)
AddEntries(i, entries, heap, gid, tbl, r, gh) ==
    IF i > Len(entries) THEN GroupsOutcome(TRUE, r, gh, None, tbl)
    ELSE IF ~Heap_getString(r, heap, entries[i].linkNameOffset.v).ok
    THEN GroupsOutcome(FALSE, Heap_getString(r, heap, entries[i].linkNameOffset.v).r, gh,
                       Heap_getString(r, heap, entries[i].linkNameOffset.v).val, tbl)
    ELSE AddEntries(i + 1, entries, heap, gid,
            SetChild(tbl, gid, Heap_getString(r, heap, entries[i].linkNameOffset.v).val,
                     new_Group(entries[i], null, tbl[gid].path,
                               Heap_getString(r, heap, entries[i].linkNameOffset.v).val)),
            Heap_getString(r, heap, entries[i].linkNameOffset.v).r, gh)

\* for (const link of this._dataObjectHeader.links): a link with an
\* objectHeaderAddress has its header parsed and becomes a Group.
RECURSIVE AddLinks(_, _, _, _, _, _, _)
AddLinks(i, links, gid, tbl, r, gh, img) ==
    IF i > Len(links) THEN GroupsOutcome(TRUE, r, gh, None, tbl)
    ELSE IF links[i].objectHeaderAddress = undefined
    THEN AddLinks(i + 1, links, gid, tbl, r, gh, img)
    ELSE IF ~DataObjectHeader(r, links[i].objectHeaderAddress.v, img).ok
    THEN GroupsOutcome(FALSE, DataObjectHeader(r, links[i].objectHeaderAddress.v, img).r, gh,
                       DataObjectHeader(r, links[i].objectHeaderAddress.v, img).val, tbl)
    ELSE AddLinks(i + 1, links, gid,
            SetChild(tbl, gid, links[i].name,
                     new_Group(null, DataObjectHeader(r, links[i].objectHeaderAddress.v, img).val,
                               tbl[gid].path, links[i].name)),
            DataObjectHeader(r, links[i].objectHeaderAddress.v, img).r, gh, img)

\* a value that if (...) takes for true
Truthy(x) == x # undefined /\ x # null /\ x # Num(0)

\* if (this._entry) { if (treeAddress || heapAddress) { heap; tree; ... } }
DecodeGroups_entry(gid, tbl, r, gh, img) ==
    LET heap == Heap(r, tbl[gid].entry.heapAddress.v, img)
        tree == IF heap.ok THEN Tree_groups(heap.r, tbl[gid].entry.treeAddress.v, img)
                ELSE heap
    IN  IF ~(Truthy(tbl[gid].entry.treeAddress) \/ Truthy(tbl[gid].entry.heapAddress))
        THEN GroupsOutcome(TRUE, r, gh, None, tbl)
        ELSE IF ~tree.ok THEN GroupsOutcome(FALSE, tree.r, gh, tree.val, tbl)
        ELSE AddEntries(1, tree.val, heap.val, gid, tbl, tree.r, gh)

\* for (const link of this._dataObjectHeader.links) ..., d being the outcome
\* of this._decodeDataObject().
DecodeGroups_decoded(d, gid, tbl, img) ==
    IF ~d.ok THEN GroupsOutcome(FALSE, d.r, d.gh, d.val, [tbl EXCEPT ![gid] = d.g])
    ELSE AddLinks(1, d.g.dataObjectHeader.links, gid, [tbl EXCEPT ![gid] = d.g],
                  d.r, d.gh, img)

\* else { this._decodeDataObject(); for (const link of ...links) ... }
DecodeGroups_links(gid, tbl, r, gh, img, lengthSize) ==
    DecodeGroups_decoded(Group_decodeDataObject(tbl[gid], r, gh, img, lengthSize),
                         gid, tbl, img)

\* group._decodeGroups(), the group being tbl[gid].
Group_decodeGroups(gid, tbl, r, gh, img, lengthSize) ==
    IF tbl[gid].groups # undefined THEN GroupsOutcome(TRUE, r, gh, None, tbl)
    ELSE IF tbl[gid].entry # null
    THEN DecodeGroups_entry(gid, [tbl EXCEPT ![gid].groups = new_Map], r, gh, img)
    ELSE DecodeGroups_links(gid, [tbl EXCEPT ![gid].groups = new_Map], r, gh, img, lengthSize)

FileOutcome(ok, r, val, fields) == [ok |-> ok, r |-> r, val |-> val, fields |-> fields]

\* case 2, case 3: new hdf5.Group(reader, null, rootGroupObjectHeader, ...), h
\* being the parse of the root's object header.
File_read_header(h, fields) ==
    IF ~h.ok THEN FileOutcome(FALSE, h.r, h.val, fields)
    ELSE FileOutcome(TRUE, h.r, new_Group(null, h.val, "", ""), fields)

\* The root Group, sb being the parse of the superblock.
File_read_root(sb, img) ==
    IF ~sb.ok THEN FileOutcome(FALSE, sb.r, sb.val, NoFields)
    ELSE IF sb.val.rootGroupEntry # null
    THEN FileOutcome(TRUE, sb.r, new_Group(sb.val.rootGroupEntry, null, "", ""), sb.val)
    ELSE File_read_header(DataObjectHeader(sb.r, sb.val.rootAddress.v, img), sb.val)

\* read() of a File that holds data: the root Group, the reader left after it.
File_read(img) == File_read_root(Superblock(img.bytes), img)

(***************************************************************************)
(* The session's specification: a file is read, and the properties of its  *)
(* groups are read in any order.                                           *)
(***************************************************************************)
MaxReads == 3

\* Where the structures of the images lie.
At == [root |-> 104, rootTree |-> 105, rootHeap |-> 106,
       a |-> 112, aTree |-> 113, aHeap |-> 114, b |-> 120, g |-> 128,
       data |-> 136, gcol |-> 144, gobj |-> 146, end |-> 160]

\* v in n bytes, little-endian; the undefined address for a negative v.
LE(v, n) ==
    [i \in 1..n |-> IF v < 0 THEN 255
                    ELSE IF i > 3 THEN 0
                    ELSE (v \div (256 ^ (i - 1))) % 256]

\* A symbol table entry, with the B-tree and the heap of a group in its
\* scratch-pad (cache type 1) or without (cache type 0).
EntryBytes(linkNameOffset, address, tree, heap, n) ==
    LE(linkNameOffset, n) \o LE(address, n)
    \o LE(IF tree = 0 THEN 0 ELSE 1, 4) \o Zeros(4)
    \o (IF tree = 0 THEN Zeros(16) ELSE LE(tree, n) \o LE(heap, n) \o Zeros(16 - 2 * n))

Entry(linkNameOffset, address, tree, heap) ==
    [linkNameOffset |-> Num(linkNameOffset), objectHeaderAddress |-> Num(address),
     cacheType |-> Num(IF tree = 0 THEN 0 ELSE 1),
     treeAddress |-> IF tree = 0 THEN undefined ELSE Num(tree),
     heapAddress |-> IF tree = 0 THEN undefined ELSE Num(heap)]

\* The superblock of a version: 0 and 1 end with the root's symbol table
\* entry, 2 and 3 (and the versions unknown) with the root's address.
SuperblockBytes(version, n, base) ==
    IF version \in {0, 1}
    THEN signature \o <<version, 0, 0, 0, 0, n, n, 0>> \o LE(4, 2) \o LE(16, 2) \o Zeros(4)
         \o (IF version = 1 THEN LE(32, 2) \o Zeros(2) ELSE <<>>)
         \o LE(base, n) \o LE(-1, n) \o LE(At.end, n) \o LE(-1, n)
         \o EntryBytes(0, At.root, At.rootTree, At.rootHeap, n)
    ELSE signature \o <<version, n, n, 0>>
         \o LE(base, n) \o LE(-1, n) \o LE(At.end, n) \o LE(At.root, n) \o Zeros(4)

ImageBytes(version, n, base) ==
    SuperblockBytes(version, n, base)
    \o Zeros(At.data - Len(SuperblockBytes(version, n, base)))
    \o <<1, 2, 3, 4>> \o Zeros(At.end - At.data - 4)

Link(name, address) == [name |-> name, objectHeaderAddress |-> Num(address)]

\* A soft link: its message has a name and a target path, and no
\* objectHeaderAddress.
SoftLink(name) == [name |-> name, objectHeaderAddress |-> undefined]

\* The objects of an image: the root with the group nm[1] and the dataset
\* "b"; the group has two attributes, the second an array of one string of
\* variable length, and a child nm[2].  Link messages name the children from
\* version 2 on, symbol tables before; the header of nm[2] has Link messages
\* in every version, a hard one to the dataset and a soft one.
ImageObjects(version, nm) ==
    (At.root :> [attributes |-> << [name |-> "title", dimensions |-> 0, data |-> Num(7)] >>,
                 links |-> IF version >= 2 THEN <<Link(nm[1], At.a), Link("b", At.b)>>
                           ELSE <<>>,
                 dataset |-> null])
    @@ (At.a :> [attributes |->
                    << [name |-> "n", dimensions |-> 0, data |-> Num(1)],
                       [name |-> "labels", dimensions |-> 1,
                        data |-> << [t |-> "vlen", length |-> 2,
                                     globalHeapID |-> [address |-> At.gcol,
                                                       objectIndex |-> 1]] >>] >>,
                 links |-> IF version >= 2 THEN <<Link(nm[2], At.g)>> ELSE <<>>,
                 dataset |-> null])
    @@ (At.b :> [attributes |-> <<>>, links |-> <<>>,
                 dataset |-> [wire |-> [version |-> 3, layoutClass |-> 1,
                                        dimensionality |-> 0, address |-> At.data,
                                        dims |-> <<>>, elementSize |-> 1, size |-> 4],
                              shape |-> <<4>>, elemSize |-> 1]])
    @@ (At.g :> [attributes |-> <<>>, links |-> <<Link("d", At.b), SoftLink("s")>>,
                 dataset |-> null])

Image(version, n, base, nm) ==
    [version |-> version, base |-> base,
     bytes |-> ImageBytes(version, n, base),
     objects |-> ImageObjects(version, nm),
     trees |-> (At.rootTree :> <<Entry(0, At.a, At.aTree, At.aHeap), Entry(8, At.b, 0, 0)>>)
               @@ (At.aTree :> <<Entry(0, At.g, 0, 0)>>),
     heaps |-> (At.rootHeap :> [dataAddress |-> At.rootHeap, strings |-> (0 :> nm[1]) @@ (8 :> "b")])
               @@ (At.aHeap :> [dataAddress |-> At.aHeap, strings |-> (0 :> nm[2])]),
     collections |-> (At.gcol :> (1 :> [position |-> At.gobj, text |-> "hi"]))]

Versions == 0..4
OffsetSizes == {4, 8}
LinkNames == { <<"a", "c">>, <<"", "c">>, <<"a", "">> }

\* A damaged image: the B-tree of the group "a" and the global heap
\* collection of its attribute "labels" are not where the file says.
Damaged(img) ==
    [img EXCEPT !.trees = [x \in {At.rootTree} |-> img.trees[x]],
                !.collections = <<>>]

\* The images: of every version, with base address 0 and, once, 16; of the
\* versions 0 and 2 a damaged one.
Images ==
    { Image(version, n, 0, nm) : version \in Versions, n \in OffsetSizes, nm \in LinkNames }
    \cup { Image(version, 8, 16, <<"a", "c">>) : version \in Versions }
    \cup { Damaged(Image(version, 8, 0, <<"a", "c">>)) : version \in {0, 2} }

NoOp == [op |-> "new", gid |-> <<>>, ok |-> TRUE, val |-> None,
         before |-> 0, after |-> 0, n |-> 0]

SessionInit ==
    /\ image \in Images
    /\ file = File_open([kind |-> "Uint8Array", bytes |-> image.bytes])
    /\ fsReader = null
    /\ globalHeap = {}
    /\ groups = <<>>
    /\ reads = <<>>
    /\ lastOp = NoOp

SessionIdle ==
    /\ image = null
    /\ file = null
    /\ fsReader = null
    /\ globalHeap = {}
    /\ groups = <<>>
    /\ reads = <<>>
    /\ lastOp = NoOp

\* file.read() of a File that holds data.  this.data is deleted before the
\* parse, whatever comes of it.
FileRead ==
    /\ file.data # undefined
    /\ \E o \in {File_read(image)} :
        /\ file' = [t |-> "File", data |-> undefined, fields |-> o.fields,
                    rootGroup |-> IF o.ok THEN <<>> ELSE undefined]
        /\ fsReader' = o.r
        /\ groups' = IF o.ok THEN (<<>> :> o.val) ELSE groups
        /\ lastOp' = [op |-> "File.read", gid |-> <<>>, ok |-> o.ok,
                      val |-> IF o.ok THEN Str(o.val.path) ELSE o.val,
                      before |-> 0, after |-> Reader_position(o.r), n |-> 0]
    /\ UNCHANGED <<image, globalHeap, reads>>
    /\ UNCHANGED sessionFrame

\* file.read() again: this._rootGroup.
FileReadAgain ==
    /\ file.data = undefined
    /\ lastOp.op # "File.read again"
    /\ lastOp' = [lastOp EXCEPT !.op = "File.read again", !.gid = <<>>, !.ok = TRUE,
                                !.val = IF file.rootGroup = undefined THEN undefined
                                        ELSE Str(groups[<<>>].path),
                                !.before = Reader_position(fsReader),
                                !.after = Reader_position(fsReader)]
    /\ UNCHANGED <<image, file, fsReader, globalHeap, groups, reads>>
    /\ UNCHANGED sessionFrame

\* The record of a property read: its first result and its last.
Log(key, result) ==
    (key :> [first |-> IF key \in DOMAIN reads THEN reads[key].first ELSE result,
             last |-> result,
             n |-> IF key \in DOMAIN reads THEN 2 ELSE 1]) @@ reads

Called(op, gid, result, r) ==
    [op |-> op, gid |-> gid, ok |-> result.ok, val |-> result.val,
     before |-> Reader_position(fsReader), after |-> Reader_position(r),
     n |-> lastOp.n + 1]

CanRead(gid) ==
    /\ file.data = undefined
    /\ gid \in DOMAIN groups
    /\ lastOp.n < MaxReads

LengthSize == file.fields.lengthSize.v

\* The Map that group.groups returns: each name with its Group.
ChildrenMap(tbl, gid) ==
    [t |-> "Map", keys |-> tbl[gid].groups.keys,
     get |-> [k \in DOMAIN tbl[gid].groups.get |->
                 [t |-> "Group", id |-> tbl[gid].groups.get[k],
                  path |-> tbl[tbl[gid].groups.get[k]].path]]]

GroupsResult(o, gid) ==
    [ok |-> o.ok, val |-> IF o.ok THEN ChildrenMap(o.tbl, gid) ELSE o.val]

\* group.groups
ReadGroups(gid) ==
    /\ CanRead(gid)
    /\ \E o \in {Group_decodeGroups(gid, groups, fsReader, globalHeap, image, LengthSize)} :
        /\ groups' = o.tbl
        /\ fsReader' = o.r
        /\ globalHeap' = o.gh
        /\ reads' = Log(<<gid, "groups">>, GroupsResult(o, gid))
        /\ lastOp' = Called("groups", gid, GroupsResult(o, gid), o.r)
    /\ UNCHANGED <<image, file>>
    /\ UNCHANGED sessionFrame

AttributesResult(o) ==
    [ok |-> o.ok, val |-> IF o.ok THEN o.g.attributes ELSE o.val]

\* group.attributes
ReadAttributes(gid) ==
    /\ CanRead(gid)
    /\ \E o \in {Group_decodeDataObject(groups[gid], fsReader, globalHeap, image, LengthSize)} :
        /\ groups' = [groups EXCEPT ![gid] = o.g]
        /\ fsReader' = o.r
        /\ globalHeap' = o.gh
        /\ reads' = Log(<<gid, "attributes">>, AttributesResult(o))
        /\ lastOp' = Called("attributes", gid, AttributesResult(o), o.r)
    /\ UNCHANGED <<image, file>>
    /\ UNCHANGED sessionFrame

\* group.value, and data of it when it is a Variable; this._value is
\* undefined when an earlier decoding failed before it was set.
Group_value_data(o) ==
    IF ~o.ok THEN [ok |-> FALSE, r |-> o.r, val |-> o.val]
    ELSE IF o.g.value = null THEN Ok(o.r, null)
    ELSE IF o.g.value = undefined
    THEN Throw(o.r, "TypeError: Cannot read properties of undefined")
    ELSE Variable_data(o.r, o.g.value)

\* group.value.data
ReadValueData(gid) ==
    /\ CanRead(gid)
    /\ \E o \in {Group_decodeDataObject(groups[gid], fsReader, globalHeap, image, LengthSize)} :
        \E v \in {Group_value_data(o)} :
            /\ groups' = [groups EXCEPT ![gid] = o.g]
            /\ fsReader' = v.r
            /\ globalHeap' = o.gh
            /\ reads' = Log(<<gid, "value.data">>, Out(v))
            /\ lastOp' = Called("value.data", gid, Out(v), v.r)
    /\ UNCHANGED <<image, file>>
    /\ UNCHANGED sessionFrame

GroupIds == { <<>> } \cup { <<nm[1]>> : nm \in LinkNames } \cup { <<"b">> }
            \cup { <<nm[1], nm[2]>> : nm \in LinkNames }

SessionGroups == \E gid \in GroupIds : ReadGroups(gid)
SessionAttributes == \E gid \in GroupIds : ReadAttributes(gid)
SessionValueData == \E gid \in GroupIds : ReadValueData(gid)


(***************************************************************************)
(* The readers, continued: the accessors of 4 and 8 bytes, offset() and    *)
(* length()                                                                *)
(***************************************************************************)
getInt32(b) ==
    IF b[4] >= 128 THEN b[1] + 256 * b[2] + 65536 * b[3] + 16777216 * (b[4] - 256)
    ELSE getUint32(b)

\* A BigInt: its sign and the bytes of its magnitude, least significant first.
BigInt(negative, magnitude) ==
    [t |-> "bigint", negative |-> negative, magnitude |-> Trim(magnitude)]

Complement(b) == [i \in 1..Len(b) |-> 255 - b[i]]

RECURSIVE AddOne(_)
AddOne(b) ==
    IF Len(b) = 0 THEN <<>>
    ELSE IF b[1] = 255 THEN <<0>> \o AddOne(Tail(b))
    ELSE <<b[1] + 1>> \o Tail(b)

\* Two's complement: with the top bit set the value is the bytes' minus 2^64.
getBigInt64(b) ==
    IF b[8] >= 128 THEN BigInt(TRUE, AddOne(Complement(b))) ELSE BigInt(FALSE, b)

getBigUint64(b) == BigInt(FALSE, b)

\* The Number of an IEEE 754 bit pattern, kept as the pattern.
getFloat32(b) == [t |-> "number", float32 |-> b]
getFloat64(b) == [t |-> "number", float64 |-> b]

\* A Number sign * mantissa * 2^exponent.
Scaled(sign, mantissa, exponent) ==
    [t |-> "number", sign |-> sign, mantissa |-> mantissa, exponent |-> exponent]

\* float16(): s, e and f of the 16 bits; e = 0 is subnormal, e = 0x1F is NaN
\* or an infinity, and the rest is 2^(e - 15) * (1 + f / 2^10).
Float16(value) ==
    LET s == value \div 32768
        e == (value % 32768) \div 1024
        f == value % 1024
        sign == IF s # 0 THEN -1 ELSE 1
    IN  IF e = 0 THEN Scaled(sign, f, -24)
        ELSE IF e = 31
        THEN (IF f # 0 THEN [t |-> "number", nan |-> TRUE]
              ELSE [t |-> "number", infinity |-> sign])
        ELSE Scaled(sign, 1024 + f, e - 25)

Reader_int32(r) ==
    LET p == take(r, 4)
    IN  IF p.ok THEN Ok(p.r, Num(getInt32(ViewBytes(p.r, p.val, 4)))) ELSE p

Reader_int64(r) ==
    LET p == take(r, 8)
    IN  IF p.ok THEN Ok(p.r, getBigInt64(ViewBytes(p.r, p.val, 8))) ELSE p

Reader_uint64(r) ==
    LET p == take(r, 8)
    IN  IF p.ok THEN Ok(p.r, getBigUint64(ViewBytes(p.r, p.val, 8))) ELSE p

Reader_float16(r) ==
    LET p == take(r, 2)
    IN  IF p.ok THEN Ok(p.r, Float16(getUint16(ViewBytes(p.r, p.val, 2)))) ELSE p

Reader_float32(r) ==
    LET p == take(r, 4)
    IN  IF p.ok THEN Ok(p.r, getFloat32(ViewBytes(p.r, p.val, 4))) ELSE p

Reader_float64(r) ==
    LET p == take(r, 8)
    IN  IF p.ok THEN Ok(p.r, getFloat64(ViewBytes(p.r, p.val, 8))) ELSE p

\* A reader constructed with an _offsetSize and a _lengthSize.
Sized(r, offsetSize, lengthSize) ==
    [offsetSize |-> offsetSize, lengthSize |-> lengthSize] @@ r

\* offset() and length() of such a reader.
offset(r) == Reader_offset(r, r.offsetSize)
length(r) == Reader_length(r, r.lengthSize)

\* seek(p); offset(); seek(p); length(): both values, or the first error.
SeekOffsetSeekLength(r, p) ==
    LET s1 == seek(r, p)
        r1 == IF s1.ok THEN offset(s1.r) ELSE s1
        s2 == IF r1.ok THEN seek(r1.r, p) ELSE r1
        r2 == IF s2.ok THEN length(s2.r) ELSE s2
    IN  IF r2.ok THEN Ok(r2.r, [t |-> "two fields", first |-> r1.val, second |-> r2.val])
        ELSE r2

(***************************************************************************)
(* The accessors' specification: fields of up to 8 bytes read by both      *)
(* readers from sources that hold the values at the edges of the ranges,   *)
(* whole, cut short, or followed by more bytes.                            *)
(***************************************************************************)
MaxTail == 1
MaxCalls == 2

\* All ones; 2^53 - 1, 2^53 - 2 and 2^53; 1; 2^31; 2^63; and a field whose
\* halves are 1.0 in 16 and in 32 bits.
FieldPatterns ==
    { <<255, 255, 255, 255, 255, 255, 255, 255>>,
      <<255, 255, 255, 255, 255, 255, 31, 0>>,
      <<254, 255, 255, 255, 255, 255, 31, 0>>,
      <<0, 0, 0, 0, 0, 0, 32, 0>>,
      <<1, 0, 0, 0, 0, 0, 0, 0>>,
      <<0, 0, 0, 128, 0, 0, 0, 0>>,
      <<0, 0, 0, 0, 0, 0, 0, 128>>,
      <<0, 60, 0, 0, 0, 0, 128, 63>> }

CutLengths == {0, 1, 4, 7}

\* The sources: the fields, alone or followed by more bytes, and the first
\* one cut short.
FieldSources ==
    { SubSeq(<<255, 255, 255, 255, 255, 255, 255, 255>>, 1, n) : n \in CutLengths }
    \cup { f \o Zeros(k) : f \in FieldPatterns, k \in 0..MaxTail }

\* The sizes a reader is constructed with, for offsets and for lengths: 4,
\* 8, and one that is neither.
FieldSizes == { <<8, 8>>, <<4, 4>>, <<8, 4>>, <<2, 8>>, <<4, 2>> }

AccessInit ==
    \E b \in FieldSources, sizes \in FieldSizes :
        /\ br = Sized(new_BinaryReader(b), sizes[1], sizes[2])
        /\ sr = Sized(new_StreamReader(b), sizes[1], sizes[2])
        /\ brOut = Out(Ok(br, None))
        /\ srOut = Out(Ok(sr, None))
        /\ rdOp = [name |-> "new", a |-> 0, b |-> 0]

\* A call on both readers, the calls so far being counted in rdOp.b.
Access(name, a, bo, so) ==
    /\ rdOp.b < MaxCalls
    /\ Call(name, a, rdOp.b + 1, bo, so)

AcSeek == \E p \in {0, 1, Len(br.buf) + 1} : Access("seek", p, seek(br, p), seek(sr, p))
AcSkip == \E n \in {1, 8} : Access("skip", n, skip(br, n), skip(sr, n))
AcRead == \E n \in {1, 8} : Access("read", n, read(br, n), read(sr, n))
AcByte == Access("byte", 0, Reader_byte(br), Reader_byte(sr))
AcInt8 == Access("int8", 0, Reader_int8(br), Reader_int8(sr))
AcUint16 == Access("uint16", 0, Reader_uint16(br), Reader_uint16(sr))
AcInt16 == Access("int16", 0, Reader_int16(br), Reader_int16(sr))
AcInt32 == Access("int32", 0, Reader_int32(br), Reader_int32(sr))
AcUint32 == Access("uint32", 0, Reader_uint32(br), Reader_uint32(sr))
AcInt64 == Access("int64", 0, Reader_int64(br), Reader_int64(sr))
AcUint64 == Access("uint64", 0, Reader_uint64(br), Reader_uint64(sr))
AcFloat16 == Access("float16", 0, Reader_float16(br), Reader_float16(sr))
AcFloat32 == Access("float32", 0, Reader_float32(br), Reader_float32(sr))
AcFloat64 == Access("float64", 0, Reader_float64(br), Reader_float64(sr))
AcOffset == Access("offset", 0, offset(br), offset(sr))
AcLength == Access("length", 0, length(br), length(sr))
AcOffsetLength ==
    \E p \in {0, 1} :
        Access("seek offset seek length", p,
               SeekOffsetSeekLength(br, p), SeekOffsetSeekLength(sr, p))

AccessNext ==
    \/ AcSeek \/ AcSkip \/ AcRead
    \/ AcByte \/ AcInt8 \/ AcUint16 \/ AcInt16
    \/ AcInt32 \/ AcUint32 \/ AcInt64 \/ AcUint64
    \/ AcFloat16 \/ AcFloat32 \/ AcFloat64
    \/ AcOffset \/ AcLength \/ AcOffsetLength

(***************************************************************************)
(* hdf5.DataObjectHeader: the constructor, one loop iteration at a time.   *)
(* walk.r is the reader; walk.position, count, i, end, next, order and     *)
(* continuations are the constructor's variables; lo, header, message,     *)
(* step, serial and inOrder record what the walk did, for the properties.  *)
(***************************************************************************)
PutUint16(o, field) == Then(o, LAMBDA x : Put(x, field, Reader_uint16(x.r)))
PutLength(o, field, lengthSize) == Then(o, LAMBDA x : Put(x, field, Reader_length(x.r, lengthSize)))
PassUint32(o) == Then(o, LAMBDA x : Pass(x, Reader_uint32(x.r)))
PassAlign(o, mod) == Then(o, LAMBDA x : Pass(x, align(x.r, mod)))
PassMatch(o, sig) == Then(o, LAMBDA x : Pass(x, Reader_match(x.r, sig)))
PassExpect(o, sig) == Then(o, LAMBDA x : Pass(x, Reader_expect(x.r, sig)))

\* uint64().toNumber(): the eight bytes as a number.
Uint64ToNumber(p) ==
    IF p.ok THEN Ok(p.r, BigInt_toNumber(ViewBytes(p.r, p.val, 8))) ELSE p

\* uint(size): a byte, a uint16, a uint32 or uint64().toNumber().
Reader_uint(r, n) ==
    CASE n = 0 -> Reader_byte(r)
      [] n = 1 -> Reader_uint16(r)
      [] n = 2 -> Reader_uint32(r)
      [] n = 3 -> Uint64ToNumber(take(r, 8))
      [] OTHER -> Throw(r, "Unsupported uint size")

\* (flags & mask) !== 0, of a mask of one bit
Bit(flags, mask) == (flags \div mask) % 2 = 1

OHDR == <<79, 72, 68, 82>>
OCHK == <<79, 67, 72, 75>>

\* The types of the dispatch table, but for NIL (0) and the continuation (16).
StoredTypes == {1, 2, 3, 4, 5, 6, 8, 10, 11, 12, 13, 14, 17, 18, 21}

\* What _readMessage comes to: o is the reader after it (or what it threw),
\* next what it returns.
MessageOutcome(o, next, continuations) ==
    [ok |-> o.ok, r |-> o.r, val |-> o.val, next |-> next, continuations |-> continuations]

\* new hdf5.ObjectHeaderContinuation(reader)
ObjectHeaderContinuation(r) ==
    PutLength(PutOffset(Ok(r, [offset |-> undefined, length |-> undefined]),
                        "offset", r.offsetSize),
              "length", r.lengthSize)

\* this.continuations.push(c), c being the continuation as read, and the end
\* of _readMessage: reader.seek(position); reader.skip(size); return true.
PushContinuation(c, position, n, continuations, serial) ==
    MessageOutcome(PassSkip(PassSeek(c, position), n), TRUE,
                   IF c.ok
                   THEN Append(continuations,
                               [offset |-> c.val.offset, length |-> c.val.length,
                                serial |-> serial])
                   ELSE continuations)

\* _readMessage(reader, type, size, flags): whether the walk goes on (false
\* for NIL), the reader and the continuations after it.  The parser of a
\* message that is stored reads `parsed` bytes of the payload.
ReadMessage(r, type, n, parsed, continuations, serial) ==
    CASE type = 0 -> MessageOutcome(Ok(r, None), FALSE, continuations)
      [] type = 16 ->
            PushContinuation(ObjectHeaderContinuation(r), Reader_position(r), n,
                             continuations, serial)
      [] type \in StoredTypes ->
            MessageOutcome(PassSkip(PassSeek(skip(r, parsed), Reader_position(r)), n),
                           TRUE, continuations)
      [] OTHER -> MessageOutcome(Throw(r, "Unsupported message type"), TRUE, continuations)

MaxSerial == 3

NoMessage == [type |-> undefined, size |-> undefined, flags |-> undefined]
NoStep == [ended |-> FALSE, nil |-> FALSE, pending |-> FALSE, followed |-> FALSE]

\* The constructor about to run on the reader r, for the header at `at`.
NewWalk(r, at) ==
    [pc |-> "new", r |-> r, offset |-> at, position |-> 0, count |-> 0, i |-> 0,
     end |-> 0, lo |-> 0, next |-> TRUE, order |-> FALSE, continuations |-> <<>>,
     serial |-> 0, header |-> [at |-> 0, lo |-> 0, hi |-> 1],
     message |-> [type |-> -1, size |-> 0, at |-> 0, after |-> 0],
     step |-> NoStep, inOrder |-> TRUE, error |-> None]

\* An exception leaves the constructor.
Failed(w, o) == [w EXCEPT !.pc = "failed", !.r = o.r, !.error = o.val]

\* case 1: skip(1); count; uint32(); objectHeaderSize; align(8)
HeaderV1(o) ==
    PassAlign(PutUint32(PassUint32(PutUint16(PassSkip(o, 1), "count")), "size"), 8)

\* The four times (flags & 0x20) and the two attribute bounds (flags & 0x10).
HeaderV2_times(o) ==
    Then(o, LAMBDA x : IF x.ok /\ Bit(x.val.flags.v, 32)
                       THEN PassUint32(PassUint32(PassUint32(PassUint32(x))))
                       ELSE x)

HeaderV2_compact(o) ==
    Then(o, LAMBDA x : IF x.ok /\ Bit(x.val.flags.v, 16)
                       THEN PassUint16(PassUint16(x))
                       ELSE x)

HeaderV2_size(o) ==
    Then(o, LAMBDA x : IF ~x.ok THEN x
                       ELSE Put(x, "size", Reader_uint(x.r, x.val.flags.v % 4)))

\* case 2: flags; the optional fields; order; size
HeaderV2(o) == HeaderV2_size(HeaderV2_compact(HeaderV2_times(PutByte(o, "flags"))))

\* let end = reader.position + size, and the loop is entered.
Begin(w, o, pc) ==
    IF ~o.ok THEN Failed(w, o)
    ELSE [w EXCEPT !.pc = pc, !.r = o.r,
                   !.count = IF pc = "v1" THEN o.val.count.v ELSE 0,
                   !.order = pc = "v2" /\ Bit(o.val.flags.v, 4),
                   !.lo = Reader_position(o.r),
                   !.end = Reader_position(o.r) + o.val.size.v]

\* switch (version)
Start_version(w, o) ==
    IF ~o.ok THEN Failed(w, o)
    ELSE CASE o.val.version = Num(1) -> Then(HeaderV1(o), LAMBDA x : Begin(w, x, "v1"))
           [] o.val.version = Num(2) -> Then(HeaderV2(o), LAMBDA x : Begin(w, x, "v2"))
           [] OTHER -> Failed(w, Throw(o.r, "Unsupported data object header version"))

\* const position = reader.position; reader.seek(offset); reader.match('OHDR');
\* const version = reader.byte(); switch (version) ...
Start(w) ==
    Then(PutByte(PassMatch(PassSeek(Ok(w.r, [version |-> undefined, count |-> undefined,
                                             size |-> undefined, flags |-> undefined]),
                                    w.offset),
                           OHDR),
                 "version"),
         LAMBDA x : Start_version([w EXCEPT !.position = Reader_position(w.r)], x))

\* What the iteration found: the message dispatched and where the reader was
\* after it, a continuation enqueued, the chunk ended or a NIL hit.
Noted(w, h, m, dispatched) ==
    [w EXCEPT
        !.message = IF dispatched
                    THEN [type |-> h.val.type.v, size |-> h.val.size.v,
                          at |-> Reader_position(h.r), after |-> Reader_position(m.r)]
                    ELSE @,
        !.serial = IF Len(m.continuations) > Len(w.continuations)
                   THEN Min(@ + 1, MaxSerial) ELSE @,
        !.step = [ended |-> Reader_position(m.r) >= w.end, nil |-> ~m.next,
                  pending |-> Len(m.continuations) > 0, followed |-> FALSE]]

\* const continuation = this.continuations.shift(); reader.seek(continuation.offset);
\* end = continuation.offset + continuation.length; s is the reader after the
\* seek (and, in version 2, after expect('OCHK')).
Follow(w, s, continuations) ==
    IF ~s.ok THEN Failed(w, s)
    ELSE [w EXCEPT !.r = s.r, !.next = TRUE,
                   !.lo = Head(continuations).offset.v,
                   !.end = Head(continuations).offset.v + Head(continuations).length.v,
                   !.continuations = Tail(continuations),
                   !.inOrder = @ /\ \A k \in 2..Len(continuations) :
                                       continuations[k].serial >= Head(continuations).serial,
                   !.step.followed = TRUE]

\* The message header of version 1: type, size, flags, skip(3), align(8).
V1Header(r) ==
    PassAlign(PassSkip(PutByte(PutUint16(PutUint16(Ok(r, NoMessage), "type"), "size"),
                               "flags"),
                       3),
              8)

\* if ((!next || reader.position >= end) && this.continuations.length > 0)
\* { ... } else { reader.align(8); }, m being what _readMessage came to.
V1After(w, m) ==
    IF ~m.ok THEN Failed(w, m)
    ELSE IF (~m.next \/ Reader_position(m.r) >= w.end) /\ Len(m.continuations) > 0
    THEN Follow([w EXCEPT !.i = @ + 1],
                seek(m.r, Head(m.continuations).offset.v), m.continuations)
    ELSE [w EXCEPT !.i = @ + 1, !.r = align(m.r, 8).r, !.continuations = m.continuations]

V1Dispatch(w, h, m) ==
    IF ~h.ok THEN Failed(w, h)
    ELSE Then(Noted(w, h, m, TRUE), LAMBDA x : V1After(x, m))

\* One iteration of for (let i = 0; i < count; i++), h being the message
\* header as read.
V1Message_header(w, h, parsed) ==
    Then(IF h.ok
         THEN ReadMessage(h.r, h.val.type.v, h.val.size.v, parsed,
                          w.continuations, w.serial)
         ELSE MessageOutcome(h, TRUE, w.continuations),
         LAMBDA x : V1Dispatch([w EXCEPT !.header = [at |-> Reader_position(w.r),
                                                     lo |-> w.lo, hi |-> w.end]],
                               h, x))

V1Message(w, parsed) == Then(V1Header(w.r), LAMBDA x : V1Message_header(w, x, parsed))

\* The message header of version 2: type, size, flags.
V2Header(r) == PutByte(PutUint16(PutByte(Ok(r, NoMessage), "type"), "size"), "flags")

\* if (order) { reader.uint16(); }
V2Order(w, h) == IF h.ok /\ w.order THEN PassUint16(h) ELSE h

\* if ((!next || reader.position >= end) && this.continuations.length > 0)
\* { ...; reader.expect('OCHK'); next = true; }
V2After(w, m) ==
    IF ~m.ok THEN Failed(w, m)
    ELSE IF (~m.next \/ Reader_position(m.r) >= w.end) /\ Len(m.continuations) > 0
    THEN Then(PassExpect(seek(m.r, Head(m.continuations).offset.v), OCHK),
              LAMBDA x : Follow(w, x, m.continuations))
    ELSE [w EXCEPT !.r = m.r, !.next = m.next, !.continuations = m.continuations]

\* if (reader.position < end) { ...; next = this._readMessage(...); }
V2Dispatch(w, h, o, parsed) ==
    IF ~h.ok THEN Failed(w, h)
    ELSE IF Reader_position(h.r) >= w.end
    THEN V2After(Noted(w, h, MessageOutcome(h, w.next, w.continuations), FALSE),
                 MessageOutcome(h, w.next, w.continuations))
    ELSE IF ~o.ok THEN Failed(w, o)
    ELSE Then(ReadMessage(o.r, h.val.type.v, h.val.size.v, parsed,
                          w.continuations, w.serial),
              LAMBDA x : V2After(Noted(w, o, x, TRUE), x))

\* One iteration of while (next && reader.position < end), h being the
\* message header as read.
V2Message_header(w, h, parsed) ==
    Then(V2Order(w, h),
         LAMBDA x : V2Dispatch([w EXCEPT !.header = [at |-> Reader_position(w.r),
                                                     lo |-> w.lo, hi |-> w.end]],
                               h, x, parsed))

V2Message(w, parsed) == Then(V2Header(w.r), LAMBDA x : V2Message_header(w, x, parsed))

\* break; reader.seek(position): the constructor returns.
Finish(w) ==
    IF seek(w.r, w.position).ok THEN [w EXCEPT !.pc = "done", !.r = seek(w.r, w.position).r]
    ELSE Failed(w, seek(w.r, w.position))

(***************************************************************************)
(* The object headers' specification: the constructor runs, an iteration   *)
(* at a time, on headers of version 1 and 2 with up to three chunks.       *)
(***************************************************************************)
MaxParsed == 2

\* Messages: one that is stored, NIL, a continuation to the chunk `to` of its
\* natural length or of length len, and one of a type outside the table.
Stored(type) == [type |-> type, size |-> 8, to |-> 0, len |-> -1]
Nil(n) == [type |-> 0, size |-> n, to |-> 0, len |-> -1]
Cont(to) == [type |-> 16, size |-> 8, to |-> to, len |-> -1]
ContLen(to, len) == [type |-> 16, size |-> 8, to |-> to, len |-> len]
Unknown == [type |-> 7, size |-> 8, to |-> 0, len |-> -1]

\* The bytes before the payload of a message.
PrefixLen(d) == IF d.version = 2 THEN (IF Bit(d.flags, 4) THEN 6 ELSE 4) ELSE 8

RECURSIVE ChunkLen(_, _)
ChunkLen(d, msgs) ==
    IF Len(msgs) = 0 THEN 0
    ELSE PrefixLen(d) + Head(msgs).size + ChunkLen(d, Tail(msgs))

\* The length of the continuation block of chunk j: in version 2 the
\* signature and the checksum are part of it.
BlockLen(d, j) == ChunkLen(d, d.chunks[j]) + (IF d.version = 2 THEN 8 ELSE 0)

\* Where chunk j lies: the header is at ChunkAt(1).
ChunkAt(j) == 8 + 80 * (j - 1)

MessageBytes(d, m) ==
    (IF d.version = 2
     THEN <<m.type>> \o LE(m.size, 2) \o <<0>> \o (IF Bit(d.flags, 4) THEN <<0, 0>> ELSE <<>>)
     ELSE LE(m.type, 2) \o LE(m.size, 2) \o <<0, 0, 0, 0>>)
    \o (IF m.type = 16
        THEN LE(ChunkAt(m.to), 4) \o LE(IF m.len < 0 THEN BlockLen(d, m.to) ELSE m.len, 4)
        ELSE Zeros(m.size))

RECURSIVE ChunkBytes(_, _)
ChunkBytes(d, msgs) ==
    IF Len(msgs) = 0 THEN <<>>
    ELSE MessageBytes(d, Head(msgs)) \o ChunkBytes(d, Tail(msgs))

Checksum == <<9, 9, 9, 9>>

\* The messages of all chunks, and d.extra more, are what version 1 counts.
MessageCount(d) ==
    Len(d.chunks[1]) + (IF Len(d.chunks) > 1 THEN Len(d.chunks[2]) ELSE 0)
    + (IF Len(d.chunks) > 2 THEN Len(d.chunks[3]) ELSE 0) + d.extra

HeaderBytes(d) ==
    IF d.version = 2
    THEN OHDR \o <<2, d.flags>>
         \o (IF Bit(d.flags, 32) THEN Zeros(16) ELSE <<>>)
         \o (IF Bit(d.flags, 16) THEN Zeros(4) ELSE <<>>)
         \o <<ChunkLen(d, d.chunks[1])>>
         \o ChunkBytes(d, d.chunks[1]) \o Checksum
    ELSE <<d.version, 0>> \o LE(MessageCount(d), 2) \o LE(1, 4)
         \o LE(ChunkLen(d, d.chunks[1]), 4) \o Zeros(4)
         \o ChunkBytes(d, d.chunks[1])

BlockBytes(d, j) ==
    IF j > Len(d.chunks) THEN <<>>
    ELSE IF d.version = 2 THEN OCHK \o ChunkBytes(d, d.chunks[j]) \o Checksum
    ELSE ChunkBytes(d, d.chunks[j])

Pad(b, n) == b \o Zeros(n - Len(b))

HeaderImage(d) ==
    Zeros(8) \o Pad(HeaderBytes(d), 80) \o Pad(BlockBytes(d, 2), 80)
    \o Pad(BlockBytes(d, 3), 80)

\* The chunks of the headers, s being a message that is stored: one chunk;
\* a continuation at the end of the first chunk; two continuations; a
\* continuation that leads to its own chunk; a NIL with a payload before a
\* message; a continuation of length len before another; a type outside the
\* table; a NIL in the middle of a chunk; and a chunk that leads back.
ChunkLists(s, len) ==
    { << <<s>> >>,
      << <<s, Cont(2)>>, <<s, Nil(0)>> >>,
      << <<Cont(2), Cont(3)>>, <<s>>, <<s>> >>,
      << <<Cont(2)>>, <<Cont(2)>> >>,
      << <<Nil(8), s>> >>,
      << <<ContLen(2, len), Cont(3)>>, <<s>>, <<s>> >>,
      << <<Unknown>> >>,
      << <<Cont(2), Nil(0), s>>, <<s>> >>,
      << <<Cont(3), s>>, <<s>>, <<Cont(2)>> >> }

\* The headers: of version 1 (the count right, or one too many), 2 (without
\* and with the optional fields) and 3.
WalkHeaders ==
    { [version |-> v[1], flags |-> v[2], extra |-> v[3], chunks |-> c] :
        v \in { <<1, 0, 0>>, <<1, 0, 1>>, <<2, 0, 0>>, <<2, 4, 0>>, <<2, 48, 0>>, <<3, 0, 0>> },
        c \in UNION { ChunkLists(Stored(t), len) : t \in {6, 18}, len \in {0, 4} } }

\* The reader is at 0 or further on when the constructor is called.
WalkInit ==
    \E d \in WalkHeaders, p \in {0, 3} :
        walk = NewWalk(seek(Sized(new_BinaryReader(HeaderImage(d)), 4, 4), p).r, ChunkAt(1))

WalkIdle == walk = null

WalkStart ==
    /\ walk.pc = "new"
    /\ walk' = Start(walk)
    /\ UNCHANGED walkFrame

WalkV1 ==
    /\ walk.pc = "v1" /\ walk.i < walk.count
    /\ \E parsed \in 0..MaxParsed : walk' = V1Message(walk, parsed)
    /\ UNCHANGED walkFrame

WalkV2 ==
    /\ walk.pc = "v2" /\ walk.next /\ Reader_position(walk.r) < walk.end
    /\ \E parsed \in 0..MaxParsed : walk' = V2Message(walk, parsed)
    /\ UNCHANGED walkFrame

WalkEnd ==
    /\ \/ walk.pc = "v1" /\ walk.i >= walk.count
       \/ walk.pc = "v2" /\ ~(walk.next /\ Reader_position(walk.r) < walk.end)
    /\ walk' = Finish(walk)
    /\ UNCHANGED walkFrame

WalkNext == WalkStart \/ WalkV1 \/ WalkV2 \/ WalkEnd

(***************************************************************************)
(* Datatypes: the Datatype message, the name of its type and the decoding  *)
(* of one element.                                                         *)
(***************************************************************************)
RECURSIVE BitAnd(_, _)
BitAnd(a, b) ==
    IF a = 0 \/ b = 0 THEN 0
    ELSE (a % 2) * (b % 2) + 2 * BitAnd(a \div 2, b \div 2)

\* a && b of two numbers: a when a is 0, else b.
LogicalAnd(a, b) == IF a = 0 THEN a ELSE b

Error(e) == [t |-> "error", v |-> e]

NoDatatype ==
    [format |-> undefined, flags0 |-> undefined, flags1 |-> undefined,
     flags2 |-> undefined, size |-> undefined, bitOffset |-> undefined,
     bitPrecision |-> undefined]

\* this._flags = reader.byte() | reader.byte() << 8 | reader.byte() << 16;
\* this._size = reader.uint32()
Datatype_fields(o) ==
    PutUint32(PutByte(PutByte(PutByte(o, "flags0"), "flags1"), "flags2"), "size")

\* case 0: this._bitOffset, this._bitPrecision; default: nothing more.
Datatype_class(o) ==
    Then(o, LAMBDA x : IF x.ok /\ x.val.format.v % 16 = 0
                       THEN PutUint16(PutUint16(x, "bitOffset"), "bitPrecision")
                       ELSE x)

Datatype_made(o) ==
    IF ~o.ok THEN o
    ELSE Ok(o.r, [t |-> "Datatype", class |-> o.val.format.v % 16,
                  flags |-> o.val.flags0.v + 256 * o.val.flags1.v + 65536 * o.val.flags2.v,
                  size |-> o.val.size.v])

\* new hdf5.Datatype(reader), of a class other than 8 (enumerated).
Datatype_version(o) ==
    IF ~o.ok THEN o
    ELSE IF o.val.format.v \div 16 \in {1, 2}
    THEN Then(Datatype_class(Datatype_fields(o)), LAMBDA x : Datatype_made(x))
    ELSE Throw(o.r, "Unsupported datatype version")

new_Datatype(r) ==
    Then(PutByte(Ok(r, NoDatatype), "format"), LAMBDA x : Datatype_version(x))

UintName(n) ==
    CASE n = 1 -> Str("uint8") [] n = 2 -> Str("uint16")
      [] n = 4 -> Str("uint32") [] n = 8 -> Str("uint64")
      [] OTHER -> Error("Unsupported uint size")

IntName(n) ==
    CASE n = 1 -> Str("int8") [] n = 2 -> Str("int16")
      [] n = 4 -> Str("int32") [] n = 8 -> Str("int64")
      [] OTHER -> Error("Unsupported int size")

UnsupportedClass == Error("Unsupported datatype class")

\* get type(), of a class other than 8.
Datatype_type(d) ==
    CASE d.class = 0 ->
            IF BitAnd(d.flags, 65526) = 0
            THEN (IF LogicalAnd(d.flags, 8) = 0 THEN UintName(d.size) ELSE IntName(d.size))
            ELSE UnsupportedClass
      [] d.class = 1 ->
            IF d.size = 2 /\ d.flags = 3872 THEN Str("float16")
            ELSE IF d.size = 4 /\ d.flags = 7968 THEN Str("float32")
            ELSE IF d.size = 8 /\ d.flags = 16160 THEN Str("float64")
            ELSE UnsupportedClass
      [] d.class = 3 -> Str("string")
      [] d.class = 5 -> Str("uint8")
      [] d.class = 6 -> Str("compound")
      [] d.class = 9 -> IF BitAnd(d.flags, 15) = 1 THEN Str("char[]") ELSE UnsupportedClass
      [] d.class \notin {0, 1, 3, 5, 6, 8, 9} -> UnsupportedClass

\* this.flags: the object has a property _flags and none named flags.
Datatype_flags(d) == undefined

\* ToInt32 of an operand of &: undefined converts to 0.
ToInt32(v) == IF v = undefined THEN 0 ELSE v.v

\* get littleEndian()
Datatype_littleEndian(d) ==
    IF d.class \in {0, 1} THEN Bool(BitAnd(ToInt32(Datatype_flags(d)), 1) = 0)
    ELSE Bool(TRUE)

\* read(reader), of the classes 0, 1, 3 and 5 and of those it rejects.
Datatype_read(d, r) ==
    CASE d.class = 0 ->
            IF d.size = 1
            THEN (IF BitAnd(d.flags, 8) # 0 THEN Reader_int8(r) ELSE Reader_byte(r))
            ELSE IF d.size = 2
            THEN (IF BitAnd(d.flags, 8) # 0 THEN Reader_int16(r) ELSE Reader_uint16(r))
            ELSE IF d.size = 4
            THEN (IF BitAnd(d.flags, 8) # 0 THEN Reader_int32(r) ELSE Reader_uint32(r))
            ELSE IF d.size = 8
            THEN (IF BitAnd(d.flags, 8) # 0 THEN Reader_int64(r) ELSE Reader_uint64(r))
            ELSE Throw(r, "Unsupported fixed-point datatype.")
      [] d.class = 1 ->
            IF d.size = 2 /\ d.flags = 3872 THEN Reader_float16(r)
            ELSE IF d.size = 4 /\ d.flags = 7968 THEN Reader_float32(r)
            ELSE IF d.size = 8 /\ d.flags = 16160 THEN Reader_float64(r)
            ELSE Throw(r, "Unsupported floating-point datatype.")
      [] d.class = 3 ->
            IF (d.flags \div 256) % 16 \in {0, 1} THEN Reader_string(r, d.size)
            ELSE Throw(r, "Unsupported character encoding.")
      [] d.class = 5 -> read(r, d.size)
      [] d.class \notin {0, 1, 3, 5, 8, 9} -> Throw(r, "Unsupported datatype class")

(***************************************************************************)
(* The datatypes' specification: a Datatype message is parsed, the name of *)
(* its type is asked for and elements are read from the bytes after it.    *)
(***************************************************************************)
\* The message of a datatype and, from ElementsAt on, eight bytes of elements.
DatatypeMessage(version, class, flags, n) ==
    <<16 * version + class>> \o LE(flags, 3) \o LE(n, 4) \o Zeros(4)

ElementsAt == Len(DatatypeMessage(1, 0, 0, 1)) + 4

DatatypeImage(version, class, flags, n, elements) ==
    DatatypeMessage(version, class, flags, n) \o Zeros(4) \o elements

\* Flags of fixed-point datatypes (byte order 0x01, padding 0x02 and 0x04,
\* sign 0x08) and of the floating-point datatypes.
DatatypeFlags == {0, 1, 8, 9, 2, 10, 3872, 7968, 16160}

DatatypeSizes == {1, 2, 3, 4, 8}

DatatypeClasses == {0, 1, 3, 5, 7}

ElementBytes == { <<255, 255, 255, 255, 255, 255, 255, 255>>,
                  <<1, 2, 3, 4, 5, 6, 7, 8>>,
                  <<0, 128, 0, 0, 65, 0, 0, 128>> }

DatatypeInit ==
    \E version \in {1, 2, 3}, class \in DatatypeClasses, flags \in DatatypeFlags,
       n \in DatatypeSizes, elements \in ElementBytes :
        /\ version = 3 => (class = 0 /\ flags = 0 /\ n = 1)
        /\ dt = [pc |-> "new",
                 r |-> new_BinaryReader(DatatypeImage(version, class, flags, n, elements)),
                 d |-> undefined, error |-> None, type |-> NotCalled,
                 littleEndian |-> NotCalled, at |-> 0, value |-> NotCalled]

DatatypeIdle == dt = null

\* this.datatype = new hdf5.Datatype(reader)
DtNew ==
    /\ dt.pc = "new"
    /\ \E o \in {new_Datatype(dt.r)} :
          dt' = IF o.ok THEN [dt EXCEPT !.pc = "made", !.r = o.r, !.d = o.val]
                ELSE [dt EXCEPT !.pc = "failed", !.r = o.r, !.error = o.val]
    /\ UNCHANGED datatypeFrame

\* datatype.type
DtType ==
    /\ dt.pc = "made"
    /\ dt' = [dt EXCEPT !.type = Datatype_type(dt.d)]
    /\ UNCHANGED datatypeFrame

\* datatype.read(reader), the reader at an element.
DtRead ==
    /\ dt.pc = "made"
    /\ \E at \in {ElementsAt, ElementsAt + 4} :
          dt' = [dt EXCEPT !.at = at, !.value = Datatype_read(dt.d, seek(dt.r, at).r)]
    /\ UNCHANGED datatypeFrame

\* variable.littleEndian: this._datatype.littleEndian
DtLittleEndian ==
    /\ dt.pc = "made"
    /\ dt' = [dt EXCEPT !.littleEndian = Datatype_littleEndian(dt.d)]
    /\ UNCHANGED datatypeFrame

DatatypeNext == DtNew \/ DtType \/ DtLittleEndian \/ DtRead

(***************************************************************************)
(* Decoding: Dataspace.decode and _decodeArray over an array as            *)
(* Dataspace.read left it, Datatype.decode on its leaves.                  *)
(***************************************************************************)
Arr(v) == [t |-> "Array", v |-> v]
NaN == [t |-> "NaN"]

\* What a call without a reader returned or threw.
Returned(v) == [ok |-> TRUE, val |-> v]
Thrown(e) == [ok |-> FALSE, val |-> Error(e)]

\* a === b of two values.
StrictEq(a, b) == a = b /\ a # NaN

\* shape[dimension]: undefined when shape is no array or dimension no index.
ElementOf(shape, dimension) ==
    IF shape.t = "Array" /\ dimension.t = "number"
    THEN (IF dimension.v < Len(shape.v) THEN Num(shape.v[dimension.v + 1]) ELSE undefined)
    ELSE undefined

\* shape.length - 1: NaN when shape is a number, which has no length.
LengthMinusOne(shape) == IF shape.t = "Array" THEN Num(Len(shape.v) - 1) ELSE NaN

\* How often for (let i = 0; i < size; i++) runs: never when size is undefined.
Iterations(n) == IF n.t = "number" THEN n.v ELSE 0

\* What Datatype.read left of a variable-length element.
Vlen(index) == [t |-> "vlen", globalHeapID |-> [objectIndex |-> index]]

\* globalHeap.get(globalHeapID): the object, or null.
GlobalHeap_object(gh, id) ==
    IF id.objectIndex \in DOMAIN gh.objects THEN gh.objects[id.objectIndex] ELSE null

\* case 9 of datatype.decode: a value that is no GlobalHeap has no get.
Datatype_decode_heap(d, a, gh) ==
    IF gh.t # "GlobalHeap" THEN Thrown("TypeError: globalHeap.get is not a function")
    ELSE IF GlobalHeap_object(gh, a.globalHeapID) = null THEN Returned(null)
    ELSE IF (d.flags \div 256) % 16 \in {0, 1}
    THEN Returned(Str(GlobalHeap_object(gh, a.globalHeapID).text))
    ELSE Thrown("Unsupported character encoding.")

\* datatype.decode(data, globalHeap)
Datatype_decode(d, a, gh) ==
    CASE d.class \in {0, 1, 3, 5, 8} -> Returned(a)
      [] d.class = 9 -> Datatype_decode_heap(d, a, gh)
      [] OTHER -> Thrown("Unsupported datatype class")

\* for (i < size) data[i] = datatype.decode(data[i], globalHeap), from i on.
RECURSIVE DecodeLeaves(_, _, _, _, _)
DecodeLeaves(d, a, gh, i, n) ==
    IF i >= n THEN Returned(a)
    ELSE Then(Datatype_decode(d, a.v[i + 1], gh),
              LAMBDA x : IF ~x.ok THEN x
                         ELSE DecodeLeaves(d, Arr([a.v EXCEPT ![i + 1] = x.val]),
                                           gh, i + 1, n))

\* _decodeArray(datatype, data, globalHeap, shape, dimension).  The call for
\* data[j] has four arguments, (datatype, data[j], shape, dimension + 1): its
\* globalHeap is the shape, its shape a number and its dimension undefined.
RECURSIVE Dataspace_decodeArray(_, _, _, _, _)
RECURSIVE DecodeRows(_, _, _, _, _, _, _)
DecodeRows(d, a, gh, shape, dimension, j, n) ==
    IF j >= n THEN Returned(a)
    ELSE Then(Dataspace_decodeArray(d, a.v[j + 1], shape, Num(dimension.v + 1),
                                    undefined),
              LAMBDA x : IF ~x.ok THEN x
                         ELSE DecodeRows(d, Arr([a.v EXCEPT ![j + 1] = x.val]),
                                         gh, shape, dimension, j + 1, n))

Dataspace_decodeArray(d, a, gh, shape, dimension) ==
    IF StrictEq(dimension, LengthMinusOne(shape))
    THEN DecodeLeaves(d, a, gh, 0, Iterations(ElementOf(shape, dimension)))
    ELSE DecodeRows(d, a, gh, shape, dimension, 0,
                    Iterations(ElementOf(shape, dimension)))

\* dataspace.decode(datatype, data, globalHeap)
Dataspace_decode(sizes, d, a, gh) ==
    IF Len(sizes) = 0 THEN Datatype_decode(d, a, gh)
    ELSE Dataspace_decodeArray(d, a, gh, Arr(sizes), Num(0))

\* attribute.decodeValue(globalHeap)
Attribute_decode(sizes, d, a, gh) ==
    IF Truthy(a) THEN Dataspace_decode(sizes, d, a, gh) ELSE Returned(null)

\* The decoding of variable.value: this._dataspace.decode(this._datatype,
\* array, array, this._globalHeap), whose third argument is the array.
Variable_value(sizes, d, array, gh) == Dataspace_decode(sizes, d, array, array)

(***************************************************************************)
(* The decoding's specification: an array of a shape of rank 0 to 3 is     *)
(* decoded as the value of an attribute or of a dataset.                   *)
(***************************************************************************)
\* The array of a shape as _readArray builds it, leaf k being leaves[k].
RECURSIVE ArrayOf(_, _, _, _)
ArrayOf(shape, dimension, k, leaves) ==
    IF dimension > Len(shape) THEN leaves[(k % Len(leaves)) + 1]
    ELSE Arr([j \in 1..shape[dimension] |->
                ArrayOf(shape, dimension + 1, k * shape[dimension] + j - 1, leaves)])

DecodeShapes == { <<>>, <<1>>, <<2>>, <<1, 2>>, <<2, 2>>, <<2, 1, 2>> }

\* The objects of the global heap, by index; index 3 is of no object.
HeapTexts == (1 :> [text |-> "a"]) @@ (2 :> [text |-> "bc"])

LeafIndices == { <<1>>, <<1, 2>>, <<3, 1>> }

LeafOf(class, index) == IF class = 9 THEN Vlen(index) ELSE Num(index)

DecodeInit ==
    \E shape \in DecodeShapes, class \in {0, 7, 9}, charset \in {0, 1, 2},
       indices \in LeafIndices :
        dec = [pc |-> "read", sizes |-> shape,
               datatype |-> [t |-> "Datatype", class |-> class,
                             flags |-> 256 * charset + (IF class = 9 THEN 1 ELSE 0),
                             size |-> 16],
               data |-> ArrayOf(shape, 1, 0,
                                [i \in 1..Len(indices) |-> LeafOf(class, indices[i])]),
               globalHeap |-> [t |-> "GlobalHeap", objects |-> HeapTexts],
               caller |-> "none", out |-> NotCalled]

DecodeIdle == dec = null

\* attribute.decodeValue(globalHeap)
DecodeAttribute ==
    /\ dec.pc = "read"
    /\ dec' = [dec EXCEPT !.pc = "decoded", !.caller = "attribute",
                          !.out = Attribute_decode(dec.sizes, dec.datatype, dec.data,
                                                   dec.globalHeap)]
    /\ UNCHANGED decodeFrame

\* variable.value
DecodeVariable ==
    /\ dec.pc = "read"
    /\ dec' = [dec EXCEPT !.pc = "decoded", !.caller = "variable",
                          !.out = Variable_value(dec.sizes, dec.datatype, dec.data,
                                                 dec.globalHeap)]
    /\ UNCHANGED decodeFrame

DecodeNext == DecodeAttribute \/ DecodeVariable

(***************************************************************************)
(* hdf5.Filter._lzf: the pass that computes the size of the output and the *)
(* pass that copies, a token of the input at a time.                       *)
(***************************************************************************)
\* input[i]; past the end of the input it is undefined, taken here as 0 (the
\* index of every read is kept in lz.read).
InputAt(input, i) == IF i < Len(input) THEN input[i + 1] ELSE 0

\* if (i > input.length) after a literal run.
LiteralCut(i, n) == i > n

\* if (i >= input.length) before the next byte of a back-reference.
ReferenceCut_lax(i, n) == FALSE
ReferenceCut(i, n) == i >= n

\* const ref = (o - ((c & 0x1f) << 8) - 1) - input[i++]
Reference(o, c, low) == (o - ((c % 32) * 256) - 1) - low

InvalidLzf == Error("Invalid LZF compressed data.")

LzfFailed(z, at) == [z EXCEPT !.pc = "failed", !.error = InvalidLzf, !.read = at]

\* One round of the first loop on a literal run: c++; i += c; o += c.
SizeLiteral(z, c) ==
    IF LiteralCut(z.i + 1 + c, Len(z.input)) THEN LzfFailed(z, z.i)
    ELSE [z EXCEPT !.i = z.i + 1 + c, !.o = z.o + c, !.read = z.i]

\* The rest of a back-reference, i being the index of its last byte and
\* length what c >> 5 and the byte after it came to.
SizeReferenceAt(z, c, i, len) ==
    IF ReferenceCut(i, Len(z.input)) THEN LzfFailed(z, i - 1)
    ELSE IF Reference(z.o, c, InputAt(z.input, i)) < 0 THEN LzfFailed(z, i)
    ELSE [z EXCEPT !.i = i + 1, !.o = z.o + len + 2, !.read = i]

\* One round of the first loop on a back-reference.
SizeReference(z, c) ==
    IF ReferenceCut(z.i + 1, Len(z.input)) THEN LzfFailed(z, z.i)
    ELSE IF c \div 32 = 7
    THEN SizeReferenceAt(z, c, z.i + 2, 7 + InputAt(z.input, z.i + 1))
    ELSE SizeReferenceAt(z, c, z.i + 1, c \div 32)

\* One round of while (i < input.length) of the first loop.
Lzf_size(z) ==
    IF InputAt(z.input, z.i) < 32 THEN SizeLiteral(z, InputAt(z.input, z.i) + 1)
    ELSE SizeReference(z, InputAt(z.input, z.i))

\* const output = new Uint8Array(o); i = 0; o = 0
Lzf_allocate_short(z) ==
    [z EXCEPT !.pc = "copy", !.output = Zeros((IF z.o > 0 THEN z.o - 1 ELSE 0)),
              !.writes = Zeros((IF z.o > 0 THEN z.o - 1 ELSE 0)), !.i = 0, !.o = 0]
Lzf_allocate(z) ==
    [z EXCEPT !.pc = "copy", !.output = Zeros(z.o), !.writes = Zeros(z.o),
              !.i = 0, !.o = 0]

\* output.set(input.subarray(i, i + c), o): the subarray ends with the input,
\* and set throws a RangeError when the bytes do not fit.
CopyLiteral(z, c, bytes) ==
    IF z.o + Len(bytes) > Len(z.output)
    THEN [z EXCEPT !.pc = "failed", !.error = Error("RangeError: offset is out of bounds"),
                   !.read = z.i + Len(bytes), !.beyond = TRUE]
    ELSE [z EXCEPT !.output = [k \in 1..Len(z.output) |->
                                  IF k > z.o /\ k <= z.o + Len(bytes)
                                  THEN bytes[k - z.o] ELSE z.output[k]],
                   !.writes = [k \in 1..Len(z.output) |->
                                  IF k > z.o /\ k <= z.o + Len(bytes)
                                  THEN z.writes[k] + 1 ELSE z.writes[k]],
                   !.i = z.i + 1 + c, !.o = z.o + c, !.read = z.i + Len(bytes)]

\* output[o] = value: an index past the end of a Uint8Array is not written.
OutputPut(z, value) ==
    IF z.o < Len(z.output)
    THEN [z EXCEPT !.output[z.o + 1] = value, !.writes[z.o + 1] = @ + 1, !.o = z.o + 1]
    ELSE [z EXCEPT !.o = z.o + 1, !.beyond = TRUE]

\* output[ref]: undefined outside the array, stored as 0.
OutputAt(z, ref) ==
    IF ref >= 0 /\ ref < Len(z.output) THEN z.output[ref + 1] ELSE 0

\* do { output[o++] = output[ref++]; } while (--length)
RECURSIVE CopyBytes(_, _, _)
CopyBytes(z, ref, len) ==
    Then(OutputPut([z EXCEPT !.refOk = @ /\ ref >= 0 /\ ref < z.o], OutputAt(z, ref)),
         LAMBDA x : IF len - 1 = 0 THEN x ELSE CopyBytes(x, ref + 1, len - 1))

\* The rest of a back-reference in the second loop, i being the index of its
\* last byte.
CopyReferenceAt(z, c, i, len) ==
    CopyBytes([z EXCEPT !.i = i + 1, !.read = i],
              Reference(z.o, c, InputAt(z.input, i)), len + 2)

CopyReference(z, c) ==
    IF c \div 32 = 7
    THEN CopyReferenceAt(z, c, z.i + 2, 7 + InputAt(z.input, z.i + 1))
    ELSE CopyReferenceAt(z, c, z.i + 1, c \div 32)

\* One round of while (i < input.length) of the second loop.
Lzf_copy(z) ==
    IF InputAt(z.input, z.i) < 32
    THEN CopyLiteral(z, InputAt(z.input, z.i) + 1,
                     SubSeq(z.input, z.i + 2,
                            Min(z.i + 2 + InputAt(z.input, z.i), Len(z.input))))
    ELSE CopyReference(z, InputAt(z.input, z.i))

(***************************************************************************)
(* The LZF specification: _lzf runs on every input of up to MaxInput bytes *)
(* of LzfBytes.                                                            *)
(***************************************************************************)
MaxInput == 5

\* Literal runs of 1 and 2 bytes; back-references of 3 and 5 bytes; a
\* back-reference whose length is in the next byte.
LzfBytes == {0, 1, 32, 96, 224}

\* The byte after a control byte of 224 and over is kept under 32, so that
\* the back-references copy at most 7 + 31 + 2 bytes.
LzfInputs ==
    { input \in UNION { [1..n -> LzfBytes] : n \in 0..MaxInput } :
        \A k \in 1..(Len(input) - 1) : input[k] >= 224 => input[k + 1] < 32 }

LzfInit ==
    \E input \in LzfInputs :
        lz = [pc |-> "size", input |-> input, i |-> 0, o |-> 0,
              output |-> undefined, writes |-> <<>>, read |-> -1,
              refOk |-> TRUE, beyond |-> FALSE, error |-> None]

LzfIdle == lz = null

LzfSize ==
    /\ lz.pc = "size" /\ lz.i < Len(lz.input)
    /\ lz' = Lzf_size(lz)
    /\ UNCHANGED lzfFrame

LzfAllocate ==
    /\ lz.pc = "size" /\ lz.i >= Len(lz.input)
    /\ lz' = Lzf_allocate(lz)
    /\ UNCHANGED lzfFrame

LzfCopy ==
    /\ lz.pc = "copy" /\ lz.i < Len(lz.input)
    /\ lz' = Lzf_copy(lz)
    /\ UNCHANGED lzfFrame

\* return output
LzfReturn ==
    /\ lz.pc = "copy" /\ lz.i >= Len(lz.input)
    /\ lz' = [lz EXCEPT !.pc = "done"]
    /\ UNCHANGED lzfFrame

LzfNext == LzfSize \/ LzfAllocate \/ LzfCopy \/ LzfReturn

(***************************************************************************)
(* Claims on Filter._lzf.                                                  *)
(***************************************************************************)
\* The bytes a token takes in the input: the control byte, then the literal
\* bytes, or the optional length byte and the low byte of the offset.
TokenBytes(c) == IF c < 32 THEN c + 2 ELSE IF c \div 32 = 7 THEN 3 ELSE 2

\* The bytes a token adds to the output, given the byte after the control byte.
TokenOutput(c, next) ==
    IF c < 32 THEN c + 1 ELSE IF c \div 32 = 7 THEN 7 + next + 2 ELSE (c \div 32) + 2

\* How far behind the end of the output a back-reference starts.
Distance(input, i) ==
    ((input[i + 1] % 32) * 256) + input[i + TokenBytes(input[i + 1])] + 1

\* From index i on, with o bytes of output so far, the input has a token cut
\* off by its end, or a back-reference to before the start of the output.
RECURSIVE CutOrBefore(_, _, _)
CutOrBefore(input, i, o) ==
    IF i >= Len(input) THEN FALSE
    ELSE IF i + TokenBytes(input[i + 1]) > Len(input) THEN TRUE
    ELSE IF input[i + 1] >= 32 /\ Distance(input, i) > o THEN TRUE
    ELSE CutOrBefore(input, i + TokenBytes(input[i + 1]),
                     o + TokenOutput(input[i + 1], input[i + 2]))

\* C24: an input in which a literal run or a back-reference is cut off by the
\* end of the input, or a back-reference points before the start of the
\* output, never gets past the first loop of _lzf: the call fails, and no
\* output is made.
C24_CutInputFails ==
    CutOrBefore(lz.input, 0, 0) =>
        /\ lz.output = undefined
        /\ \/ lz.pc = "failed"
           \/ lz.pc = "size" /\ lz.i < Len(lz.input)

\* A back-reference after a literal run has made _lzf fail.
C24_FailedAtReference ==
    /\ lz.pc = "failed" /\ lz.error = InvalidLzf
    /\ lz.i > 0 /\ InputAt(lz.input, lz.i) >= 32
    /\ CutOrBefore(lz.input, 0, 0)

\* C30: on an input the first loop accepted, the second loop writes every
\* index of the output once and none beyond its end, reads no byte of the
\* input at or past its end, and copies a back-reference only from indices
\* already written.
C30_CopyWithinOutput ==
    /\ ~lz.beyond
    /\ lz.refOk
    /\ lz.read < Len(lz.input) \/ lz.read = -1
    /\ lz.pc \in {"copy", "done"} =>
          /\ lz.error = None
          /\ \A k \in 1..Len(lz.writes) : lz.writes[k] = IF k <= lz.o THEN 1 ELSE 0
          /\ lz.o <= Len(lz.output)
    /\ lz.pc = "done" => lz.o = Len(lz.output)

\* _lzf returned an output longer than its input: a back-reference was copied.
C30_ReferenceCopied ==
    /\ lz.pc = "done"
    /\ Len(lz.output) > Len(lz.input)
    /\ \A k \in 1..Len(lz.writes) : lz.writes[k] = 1

(***************************************************************************)
(* hdf5.Filter.decode and the loop of hdf5.Variable.data that passes a     *)
(* chunk through the filters of the pipeline.                              *)
(***************************************************************************)
NewLzf(input) ==
    [pc |-> "size", input |-> input, i |-> 0, o |-> 0,
     output |-> undefined, writes |-> <<>>, read |-> -1,
     refOk |-> TRUE, beyond |-> FALSE, error |-> None]

\* Both loops of _lzf, to the return or the throw.
RECURSIVE LzfRun(_)
LzfRun(z) ==
    IF z.pc = "size"
    THEN LzfRun(IF z.i < Len(z.input) THEN Lzf_size(z) ELSE Lzf_allocate(z))
    ELSE IF z.pc = "copy" /\ z.i < Len(z.input) THEN LzfRun(Lzf_copy(z))
    ELSE z

Filter_lzf(input) ==
    Then(LzfRun(NewLzf(input)),
         LAMBDA z : IF z.pc = "failed" THEN Thrown(z.error.v) ELSE Returned(z.output))

\* _deflate hands the chunk to zip.Archive, which is not part of the source
\* under study: what it returns or throws is an input of the step.
Filter_deflate(input, inflated) == inflated

DeflateId == 1
LzfId == 32000

UnsupportedFilter == "Unsupported filter"

\* decode(data): switch (this.id)
Filter_decode_any(id, chunk, inflated) ==
    IF id = LzfId THEN Filter_lzf(chunk) ELSE Filter_deflate(chunk, inflated)
Filter_decode(id, chunk, inflated) ==
    IF id = DeflateId THEN Filter_deflate(chunk, inflated)
    ELSE IF id = LzfId THEN Filter_lzf(chunk)
    ELSE Thrown(UnsupportedFilter)

\* 1 << i: the shift count is taken modulo 32.
ShiftLeftOne(i) == 2 ^ (i % 32)

\* (node.filterMask & (1 << i)) === 0
MaskClear(filterMask, i) == BitAnd(filterMask, ShiftLeftOne(i)) = 0

\* One round of for (let i = 0; i < filters.length; i++).
Variable_filter(f, inflated) ==
    IF MaskClear(f.filterMask, f.i)
    THEN Then(Filter_decode(f.filters[f.i + 1], f.chunk, inflated),
              LAMBDA x : IF x.ok
                         THEN [f EXCEPT !.chunk = x.val, !.i = f.i + 1,
                                        !.applied = Append(f.applied, f.i)]
                         ELSE [f EXCEPT !.pc = "failed", !.error = x.val.v,
                                        !.applied = Append(f.applied, f.i)])
    ELSE [f EXCEPT !.i = f.i + 1]

(***************************************************************************)
(* The Filters specification: a chunk of a B-tree node passes through      *)
(* every pipeline of up to MaxFilters filters, under every filter mask.    *)
(***************************************************************************)
MaxFilters == 3

\* The two ids the decoder knows, and one it does not (2 is shuffle).
FilterIds == {DeflateId, LzfId, 2}

Pipelines == UNION { [1..n -> FilterIds] : n \in 0..MaxFilters }

FilterMasks == 0..(2 ^ MaxFilters - 1)

\* A literal run of two bytes, one of LZF data, and LZF data cut short.
Chunks == { <<1, 0, 7>>, <<0, 7>>, <<32>> }

\* What the inflater gives back: a chunk, or an error.
Inflated == { Returned(c) : c \in Chunks } \cup { Thrown("Invalid deflate data") }

FilterInit ==
    \E filters \in Pipelines, filterMask \in FilterMasks, chunk \in Chunks :
        fp = [pc |-> "filter", filters |-> filters, filterMask |-> filterMask,
              node |-> chunk, chunk |-> chunk, i |-> 0, applied |-> <<>>,
              error |-> None]

FilterIdle == fp = null

FilterStep ==
    /\ fp.pc = "filter" /\ fp.i < Len(fp.filters)
    /\ \E inflated \in Inflated : fp' = Variable_filter(fp, inflated)
    /\ UNCHANGED filterFrame

\* The loop is over: the chunk goes on to be copied into the data.
FilterEnd ==
    /\ fp.pc = "filter" /\ fp.i >= Len(fp.filters)
    /\ fp' = [fp EXCEPT !.pc = "done"]
    /\ UNCHANGED filterFrame

FilterNext == FilterStep \/ FilterEnd

(***************************************************************************)
(* Claims on the filter pipeline.                                          *)
(***************************************************************************)
\* Bit i of the mask.
MaskBit(filterMask, i) == (filterMask \div (2 ^ i)) % 2

\* The indices below n whose bit of the mask is 0, in ascending order.
RECURSIVE Due(_, _)
Due(filterMask, n) ==
    IF n = 0 THEN <<>>
    ELSE IF MaskBit(filterMask, n - 1) = 0
         THEN Append(Due(filterMask, n - 1), n - 1)
         ELSE Due(filterMask, n - 1)

Known(id) == id \in {1, 32000}

\* C23: the filters applied to a chunk are, in ascending order, the indices
\* whose bit of the filter mask is 0, up to the index the loop has reached;
\* an applied filter whose id is neither 1 nor 32000 fails the read with
\* 'Unsupported filter', and a filter that is skipped fails nothing.
C23_AppliedByMask ==
    /\ fp.applied = Due(fp.filterMask, IF fp.pc = "failed" THEN fp.i + 1 ELSE fp.i)
    /\ \A k \in 1..Len(fp.applied) :
          ~Known(fp.filters[fp.applied[k] + 1]) =>
              /\ k = Len(fp.applied)
              /\ fp.pc = "failed" /\ fp.error = UnsupportedFilter
    /\ fp.pc = "failed" => MaskBit(fp.filterMask, fp.i) = 0
    /\ fp.pc = "done" => fp.i = Len(fp.filters)

\* A filter of unknown id was skipped, a later one was applied, and the loop
\* went through.
C23_SkippedUnknown ==
    /\ fp.pc = "done"
    /\ \E j \in 1..Len(fp.filters) :
          /\ ~Known(fp.filters[j]) /\ MaskBit(fp.filterMask, j - 1) = 1
          /\ \E k \in 1..Len(fp.applied) : fp.applied[k] > j - 1
    /\ fp.chunk # fp.node

\* An applied filter of unknown id has failed the read.
C23_FailedUnknown ==
    /\ fp.pc = "failed" /\ fp.error = UnsupportedFilter
    /\ Len(fp.applied) > 1

(***************************************************************************)
(* hdf5.Tree: the constructor, a call of it being a frame of a stack, over *)
(* a file given as the records found at its addresses.                     *)
(***************************************************************************)
\* The bytes before the entries of a node: 'TREE', type, level, entries used
\* and the addresses of the two siblings.
TreeHeaderLen == 4 + 1 + 1 + 2 + 8 + 8

\* The bytes of an entry: a length and a child pointer in a group node; size,
\* filter mask, one field and a child pointer in a chunk node.
TreeEntryLen(type) == IF type = 0 THEN 8 + 8 ELSE 4 + 4 + 8 + 8

\* The position in the file of the record at an address.
AddressOf(a) == 64 * a

\* The calls of the constructor the engine has stack for.
MaxStack == 4

RangeError == "RangeError: Maximum call stack size exceeded"

\* The frame of new hdf5.Tree(reader, offset): const position = reader.position.
TreeFrame(at, position) ==
    [offset |-> at, position |-> position, state |-> "new",
     type |-> 0, level |-> 0, entries |-> <<>>, i |-> 0, nodes |-> <<>>]

TreeFailed(t, e) == [t EXCEPT !.pc = "failed", !.error = Error(e)]

\* reader.seek(offset); reader.expect('TREE'); type, level, entries and the
\* siblings; the switch on the type throws before any entry is read.
Tree_open(t, f) ==
    IF t.file[f.offset].signature # "TREE"
    THEN TreeFailed([t EXCEPT !.position = AddressOf(f.offset)],
                    "File contains unexpected data")
    ELSE IF t.file[f.offset].type \notin {0, 1}
    THEN TreeFailed([t EXCEPT !.position = AddressOf(f.offset) + TreeHeaderLen],
                    "Unsupported B-Tree node type")
    ELSE [t EXCEPT !.position = AddressOf(f.offset) + TreeHeaderLen,
                   !.stack[Len(t.stack)] =
                       [f EXCEPT !.state = "entries",
                                 !.type = t.file[f.offset].type,
                                 !.level = t.file[f.offset].level,
                                 !.entries = t.file[f.offset].children]]

\* new hdf5.SymbolTableNode(reader, childPointer): the position is kept, the
\* signature 'SNOD' expected, and the position sought back.
SymbolTableNode(t, childPointer) ==
    IF t.file[childPointer].signature = "SNOD"
    THEN Returned([node |-> childPointer])
    ELSE Thrown("File contains unexpected data")

\* reader.seek(childPointer); const data = reader.read(size); the node is
\* { data, fields, filterMask }; reader.seek(position).
Tree_chunk(t, childPointer) == Returned([data |-> childPointer])

\* this.nodes.push(node) and this.nodes.push(...tree.nodes).
Tree_push_front(nodes, more) == more \o nodes
Tree_push(nodes, more) == nodes \o more

\* The leaf of an entry of a node of level 0.
Tree_leaf(t, f, childPointer) ==
    Then(IF f.type = 0 THEN SymbolTableNode(t, childPointer)
                       ELSE Tree_chunk(t, childPointer),
         LAMBDA x : IF x.ok
                    THEN [t EXCEPT !.position = @ + TreeEntryLen(f.type),
                                   !.stack[Len(t.stack)] =
                                       [f EXCEPT !.i = f.i + 1,
                                                 !.nodes = Tree_push(f.nodes, <<x.val>>)]]
                    ELSE TreeFailed([t EXCEPT !.position = AddressOf(childPointer)],
                                    x.val.v))

\* The entry of a node of a level over 0: new hdf5.Tree(reader, childPointer),
\* which the engine refuses with a RangeError when the stack is exhausted.
Tree_child(t, f, childPointer) ==
    IF Len(t.stack) >= MaxStack
    THEN TreeFailed([t EXCEPT !.position = @ + TreeEntryLen(f.type)],
                    RangeError)
    ELSE [t EXCEPT !.position = @ + TreeEntryLen(f.type),
                   !.stack = Append(t.stack,
                                    TreeFrame(childPointer,
                                              t.position + TreeEntryLen(f.type)))]

\* One round of for (let i = 0; i < entries; i++).
Tree_entry(t, f) ==
    IF f.level = 0 THEN Tree_leaf(t, f, f.entries[f.i + 1])
    ELSE Tree_child(t, f, f.entries[f.i + 1])

\* reader.seek(position) at the end of the constructor; the caller goes on
\* with this.nodes.push(...tree.nodes), or has the tree.
Tree_close(t, f) ==
    IF Len(t.stack) = 1
    THEN [t EXCEPT !.pc = "done", !.position = f.position, !.nodes = f.nodes,
                   !.stack = <<>>]
    ELSE [t EXCEPT !.position = f.position,
                   !.stack = [k \in 1..(Len(t.stack) - 1) |->
                                 IF k = Len(t.stack) - 1
                                 THEN [t.stack[k] EXCEPT
                                          !.i = @ + 1,
                                          !.nodes = Tree_push(@, f.nodes)]
                                 ELSE t.stack[k]]]

(***************************************************************************)
(* The Trees specification: a Tree is constructed at address 1 of every    *)
(* file of two nodes and two leaves whose nodes have up to MaxEntries      *)
(* entries.                                                                *)
(***************************************************************************)
MaxEntries == 2

TreeAddresses == {1, 2}
LeafAddresses == {3, 4}

Pointers == UNION { [1..n -> TreeAddresses \cup LeafAddresses] : n \in 0..MaxEntries }

TreeNodes(type) ==
    [signature : {"TREE"}, type : {type}, level : {0, 1}, children : Pointers]

LeafRecord(type) ==
    [signature |-> IF type = 0 THEN "SNOD" ELSE "data", type |-> 0, level |-> 0,
     children |-> <<>>]

\* The files: the two nodes are of one type, 0 or 1, or the first is of a
\* type that is not supported.
TreeFiles ==
    { [a \in TreeAddresses \cup LeafAddresses |->
          IF a = 1 THEN n[1] ELSE IF a = 2 THEN n[2] ELSE LeafRecord(n[2].type)] :
      n \in (TreeNodes(0) \X TreeNodes(0)) \cup (TreeNodes(1) \X TreeNodes(1))
             \cup ({ m \in TreeNodes(2) : m.children = <<>> } \X TreeNodes(0)) }

\* The position of the reader before the construction.
Before == 8 + 8

TreeInit ==
    \E records \in TreeFiles :
        tr = [pc |-> "tree", file |-> records, before |-> Before,
              position |-> Before, stack |-> <<TreeFrame(1, Before)>>,
              nodes |-> <<>>, error |-> None]

TreeIdle == tr = null

TreeOpen ==
    /\ tr.pc = "tree" /\ tr.stack[Len(tr.stack)].state = "new"
    /\ tr' = Tree_open(tr, tr.stack[Len(tr.stack)])
    /\ UNCHANGED treeFrame

TreeEntry ==
    /\ tr.pc = "tree" /\ tr.stack[Len(tr.stack)].state = "entries"
    /\ tr.stack[Len(tr.stack)].i < Len(tr.stack[Len(tr.stack)].entries)
    /\ tr' = Tree_entry(tr, tr.stack[Len(tr.stack)])
    /\ UNCHANGED treeFrame

TreeClose ==
    /\ tr.pc = "tree" /\ tr.stack[Len(tr.stack)].state = "entries"
    /\ tr.stack[Len(tr.stack)].i >= Len(tr.stack[Len(tr.stack)].entries)
    /\ tr' = Tree_close(tr, tr.stack[Len(tr.stack)])
    /\ UNCHANGED treeFrame

TreeNext == TreeOpen \/ TreeEntry \/ TreeClose

(***************************************************************************)
(* Claims on the construction of a Tree.                                   *)
(***************************************************************************)
\* The constructors on the stack that have read their node.
Opened == { k \in 1..Len(tr.stack) : tr.stack[k].state = "entries" }

\* C25: the child of a node of a level over 0 is constructed as a node of a
\* strictly lower level, so that the constructors on the stack are never more
\* than the level of the root and one, also when a child pointer is the
\* address of the node itself or of a node above it.
C25_DepthBoundedByLevel ==
    tr.pc = "tree" =>
        /\ \A k \in Opened : k > 1 => tr.stack[k].level < tr.stack[k - 1].level
        /\ 1 \in Opened => Len(tr.stack) <= tr.stack[1].level + 1

\* What does hold: a node is entered however its level compares with the
\* level of the node above; the stack is exhausted only by a construction
\* that came back to a node it was in, and such a construction never ends
\* with a tree.
C25_DepthBoundedByStack ==
    /\ tr.pc = "tree" => Len(tr.stack) <= MaxStack
    /\ tr.error = Error(RangeError) =>
          /\ tr.pc = "failed" /\ Len(tr.stack) = MaxStack
          /\ \E j, k \in 1..Len(tr.stack) : j < k /\ tr.stack[j].offset = tr.stack[k].offset
    /\ tr.pc = "done" => tr.error = None

\* The leaf a node of level 0 makes of a child pointer.
LeafOfEntry(type, childPointer) ==
    IF type = 0 THEN [node |-> childPointer] ELSE [data |-> childPointer]

\* The leaves under the node at address a, entry by entry and depth first,
\* through at most `depth` nodes one under the other.
RECURSIVE LeavesUnder(_, _, _), LeavesFrom(_, _, _, _)
LeavesUnder(records, a, depth) ==
    IF depth = 0 THEN <<>> ELSE LeavesFrom(records, a, 1, depth)
LeavesFrom(records, a, k, depth) ==
    IF k > Len(records[a].children) THEN <<>>
    ELSE (IF records[a].level = 0
          THEN <<LeafOfEntry(records[a].type, records[a].children[k])>>
          ELSE LeavesUnder(records, records[a].children[k], depth - 1))
         \o LeavesFrom(records, a, k + 1, depth)

\* C26: when the construction of a Tree is over, nodes holds the leaves that
\* are reached from the root, one for each entry that reaches it, in the
\* order of the entries and depth first, and the reader is at the position it
\* had before the construction.
C26_LeavesInOrder ==
    tr.pc = "done" =>
        /\ tr.nodes = LeavesUnder(tr.file, 1, MaxStack)
        /\ tr.position = tr.before

\* A tree of two levels was constructed whose leaves are not all the same.
C26_TwoLevels ==
    /\ tr.pc = "done"
    /\ tr.file[1].level = 1 /\ Len(tr.file[1].children) = 2
    /\ Len(tr.nodes) > 2
    /\ tr.nodes[1] # tr.nodes[2]
    /\ tr.position = tr.before

(***************************************************************************)
(* Claims on align.                                                        *)
(***************************************************************************)
\* The smallest multiple of m that is not below p.
RoundUp(p, m) == ((p + m - 1) \div m) * m

\* What the position getter reports: this._offset + this._position.
Reported(r) == r.offset + r.position

\* C27: after align(m) the position either reader reports is the smallest
\* multiple of m that is not below the position it reported before, whatever
\* calls of seek and skip came before.
C27_AlignRoundsReported ==
    [][rdOp'.name = "align" =>
          /\ Reported(br') = RoundUp(Reported(br), rdOp'.a)
          /\ Reported(sr') = RoundUp(Reported(sr), rdOp'.a)]_vars

\* C27, amended: align(m) rounds up the position in the buffer, which is
\* counted from the target of the last seek; the target itself stays.
C27_AlignRoundsInBuffer ==
    [][rdOp'.name = "align" =>
          /\ br'.offset = br.offset /\ br'.position = RoundUp(br.position, rdOp'.a)
          /\ sr'.offset = sr.offset /\ sr'.position = RoundUp(sr.position, rdOp'.a)]_vars

\* align has rounded up a position in the buffer after a seek to a position
\* that is no multiple: the reported position is no multiple either.
C27_AlignedAfterSeek ==
    /\ rdOp.name = "align" /\ brOut.ok /\ srOut.ok
    /\ br.offset % rdOp.a # 0 /\ br.position > 0 /\ br.position % rdOp.a = 0
    /\ sr.offset % rdOp.a # 0 /\ sr.position > 0 /\ sr.position % rdOp.a = 0
    /\ Reported(br) % rdOp.a # 0

(***************************************************************************)
(* Claims on string(size) with a size of 0 or -1.                          *)
(***************************************************************************)
\* The bytes of the source from position p up to the next NUL, and whether
\* there is one.
RECURSIVE BeforeNul(_, _)
BeforeNul(b, p) ==
    IF p >= Len(b) \/ b[p + 1] = 0 THEN <<>> ELSE <<b[p + 1]>> \o BeforeNul(b, p + 1)

HasNul(b, p) == \E k \in (p + 1)..Len(b) : b[k] = 0

\* string(size) on reader r came to `out`: the bytes before the next NUL, or
\* the end-of-file error when there is none.
ScannedOrFailed(r, out) ==
    IF HasNul(r.buf, Reported(r))
    THEN out.ok /\ out.val = Str(BeforeNul(r.buf, Reported(r)))
    ELSE ~out.ok /\ out.val.v = EndOfFile

\* string(size) on reader r came to `out`: the bytes before the next NUL, or
\* no return at all when there is none.
ScannedOrLost(r, out) ==
    IF HasNul(r.buf, Reported(r))
    THEN out.ok /\ out.val = Str(BeforeNul(r.buf, Reported(r)))
    ELSE ~out.ok /\ out.val.v = NoReturn

\* C28: string(size) with size 0 or -1 returns the bytes from the position
\* to the next NUL, and fails with the end-of-file error when the source has
\* no NUL from the position on, on the BinaryReader and on the StreamReader.
C28_ScanEndsOrFails ==
    [][(rdOp'.name = "string" /\ rdOp'.a <= 0) =>
          /\ ScannedOrFailed(br, brOut')
          /\ ScannedOrFailed(sr, srOut')]_vars

\* What does hold: the StreamReader is as claimed; the BinaryReader returns
\* the same bytes when there is a NUL, and never returns when there is none.
C28_ScanEndsOnStream ==
    [][(rdOp'.name = "string" /\ rdOp'.a <= 0) =>
          /\ ScannedOrLost(br, brOut')
          /\ ScannedOrFailed(sr, srOut')]_vars

(***************************************************************************)
(* Claims on calls that follow a failed call.                              *)
(***************************************************************************)
\* The reads of groups and of attributes made so far.
LazyReads == { key \in DOMAIN reads : key[2] \in {"groups", "attributes"} }

\* C29: when the first File.read, or the first read of groups or attributes
\* of a Group, has failed, every later call of it on the same object fails
\* too: none returns an undefined root or a map as if the decoding had gone
\* through.
C29_FailureStays ==
    /\ (lastOp.op = "File.read again" /\ file.rootGroup = undefined) => ~lastOp.ok
    /\ \A key \in LazyReads : ~reads[key].first.ok => ~reads[key].last.ok

\* What does hold: a File.read after a failed one returns undefined, and a
\* read of groups or attributes after a failed one returns the map as far as
\* it was filled.
C29_FailureOnce ==
    /\ (lastOp.op = "File.read again" /\ file.rootGroup = undefined) =>
          lastOp.ok /\ lastOp.val = undefined
    /\ \A key \in LazyReads :
          (~reads[key].first.ok /\ reads[key].n > 1) =>
              reads[key].last.ok /\ reads[key].last.val.t = "Map"

(***************************************************************************)
(* Specifications                                                          *)
(***************************************************************************)
InitOpen == OpenInit /\ ReaderIdle /\ DatasetIdle /\ SessionIdle /\ WalkIdle /\ DatatypeIdle /\ DecodeIdle /\ LzfIdle /\ FilterIdle /\ TreeIdle
NextOpen == Open
SpecOpen == InitOpen /\ [][NextOpen]_vars

InitReader == ReaderInit /\ OpenIdle /\ DatasetIdle /\ SessionIdle /\ WalkIdle /\ DatatypeIdle /\ DecodeIdle /\ LzfIdle /\ FilterIdle /\ TreeIdle
NextReader == ReaderNext
SpecReader == InitReader /\ [][NextReader]_vars

InitAccess == AccessInit /\ OpenIdle /\ DatasetIdle /\ SessionIdle /\ WalkIdle /\ DatatypeIdle /\ DecodeIdle /\ LzfIdle /\ FilterIdle /\ TreeIdle
NextAccess == AccessNext
SpecAccess == InitAccess /\ [][NextAccess]_vars

InitWalk ==
    WalkInit /\ OpenIdle /\ ReaderIdle /\ DatasetIdle /\ SessionIdle /\ DatatypeIdle /\ DecodeIdle /\ LzfIdle /\ FilterIdle /\ TreeIdle
NextWalk == WalkNext
SpecWalk == InitWalk /\ [][NextWalk]_vars

\* The constructor is synchronous code: it runs on as long as it can.
SpecWalkFair == SpecWalk /\ WF_vars(NextWalk)

InitDatatype ==
    DatatypeInit /\ OpenIdle /\ ReaderIdle /\ DatasetIdle /\ SessionIdle /\ WalkIdle /\ DecodeIdle /\ LzfIdle /\ FilterIdle /\ TreeIdle
NextDatatype == DatatypeNext
SpecDatatype == InitDatatype /\ [][NextDatatype]_vars

InitDecode ==
    DecodeInit /\ OpenIdle /\ ReaderIdle /\ DatasetIdle /\ SessionIdle
    /\ WalkIdle /\ DatatypeIdle /\ LzfIdle /\ FilterIdle /\ TreeIdle
NextDecode == DecodeNext
SpecDecode == InitDecode /\ [][NextDecode]_vars

InitLzf ==
    LzfInit /\ OpenIdle /\ ReaderIdle /\ DatasetIdle /\ SessionIdle
    /\ WalkIdle /\ DatatypeIdle /\ DecodeIdle /\ FilterIdle /\ TreeIdle
NextLzf == LzfNext
SpecLzf == InitLzf /\ [][NextLzf]_vars

InitFilter ==
    FilterInit /\ OpenIdle /\ ReaderIdle /\ DatasetIdle /\ SessionIdle
    /\ WalkIdle /\ DatatypeIdle /\ DecodeIdle /\ LzfIdle /\ TreeIdle
NextFilter == FilterNext
SpecFilter == InitFilter /\ [][NextFilter]_vars

InitTree ==
    TreeInit /\ OpenIdle /\ ReaderIdle /\ DatasetIdle /\ SessionIdle
    /\ WalkIdle /\ DatatypeIdle /\ DecodeIdle /\ LzfIdle /\ FilterIdle
NextTree == TreeNext
SpecTree == InitTree /\ [][NextTree]_vars

InitDataset == DatasetInit /\ OpenIdle /\ ReaderIdle /\ SessionIdle /\ WalkIdle /\ DatatypeIdle /\ DecodeIdle /\ LzfIdle /\ FilterIdle /\ TreeIdle
NextDataset == ReadData \/ RejectLayout
SpecDataset == InitDataset /\ [][NextDataset]_vars

InitSession == SessionInit /\ OpenIdle /\ ReaderIdle /\ DatasetIdle /\ WalkIdle /\ DatatypeIdle /\ DecodeIdle /\ LzfIdle /\ FilterIdle /\ TreeIdle
NextSession ==
    \/ FileRead \/ FileReadAgain
    \/ SessionGroups \/ SessionAttributes \/ SessionValueData
SpecSession == InitSession /\ [][NextSession]_vars

(***************************************************************************)
(* Claims                                                                  *)
(***************************************************************************)
StartsWithSignature(bytes) ==
    /\ Len(bytes) >= 8
    /\ SubSeq(bytes, 1, 8) = signature

\* C1: File.open returns null (and raises nothing) for every input shorter than
\* 8 bytes and for every input whose first 8 bytes are not the signature; it
\* returns a File for every input of at least 8 bytes that starts with it.
C1_OpenBySignature ==
    opened # NotCalled =>
        /\ (data.kind = "none" \/ ~StartsWithSignature(data.bytes)) => opened = null
        /\ (data.kind # "none" /\ StartsWithSignature(data.bytes))
              => opened = [t |-> "File", data |-> data]

\* An input of exactly 8 bytes, the signature, was opened.
C1_Witness ==
    /\ opened # NotCalled
    /\ opened # null
    /\ Len(data.bytes) = 8

\* What C7 says of one reader in a step that made the call rdOp' on it: r and
\* r2 are the reader before and after, out is the outcome.
RoundTripAndPeek(r, r2, out) ==
    /\ (rdOp'.name = "seek read seek read" /\ rdOp'.a + rdOp'.b <= Len(r.buf))
          => /\ out.ok
             /\ out.val.first = out.val.second
             /\ out.val.first = Bytes(SubSeq(r.buf, rdOp'.a + 1, rdOp'.a + rdOp'.b))
    /\ (rdOp'.name = "peek" /\ Reader_position(r) + rdOp'.a <= Len(r.buf))
          => /\ out.ok
             /\ out.val = Bytes(SubSeq(r.buf, Reader_position(r) + 1,
                                       Reader_position(r) + rdOp'.a))
             /\ Reader_position(r2) = Reader_position(r)

\* C7: for both readers and every p, n with p + n within the source,
\* seek(p); read(n); seek(p); read(n) returns the same bytes both times, and
\* peek(n) returns the next n bytes and leaves the position unchanged.
C7_RoundTripAndPeek ==
    [][RoundTripAndPeek(br, br', brOut') /\ RoundTripAndPeek(sr, sr', srOut')]_vars

\* The part of C7 that the code keeps: the round trip on both readers, and peek
\* on the BinaryReader.
C7_BinaryReaderAndRoundTrip ==
    [][/\ RoundTripAndPeek(br, br', brOut')
       /\ rdOp'.name = "seek read seek read" => RoundTripAndPeek(sr, sr', srOut')]_vars

C8_Calls ==
    {"seek", "skip", "align", "byte", "int8", "uint16", "int16", "read", "size",
     "string", "match", "expect"}

\* C8: for the same bytes and the same sequence of calls, the BinaryReader and
\* the StreamReader return the same values, fail in the same cases and are at
\* the same position after every call.
C8_ReadersAgree ==
    rdOp.name \in C8_Calls =>
        /\ brOut.ok = srOut.ok
        /\ brOut.ok => /\ brOut.val = srOut.val
                       /\ Reader_position(br) = Reader_position(sr)

\* The readers agree as long as no call scans for a terminator.
C8_AgreeWithoutScan ==
    (rdOp.name \in C8_Calls \ {"size", "string"}
       /\ Reader_position(br) = Reader_position(sr))
        => /\ brOut.ok = srOut.ok
           /\ brOut.ok => brOut.val = srOut.val

(***************************************************************************)
(* Variable.data: the scatter of chunks, and the length of the data        *)
(***************************************************************************)
\* The position of the element with row-major index e in an array of `shape`.
Unravel(e, shape) == [i \in 1..Len(shape) |-> (e \div Strides(shape)[i]) % shape[i]]

RECURSIVE Dot(_, _)
Dot(p, q) == IF Len(p) = 0 THEN 0 ELSE Head(p) * Head(q) + Dot(Tail(p), Tail(q))

\* c[i] <= p[i] < c[i] + chunk_shape[i] for all i, c the offset of the node.
InChunk(p, node, chunk_shape) ==
    \A i \in 1..Len(p) : node.fields[i] <= p[i] /\ p[i] < node.fields[i] + chunk_shape[i]

\* Byte b of the element of the node's chunk that lies at data position p.
ChunkItemByte(p, node, chunk_shape, item_size, b) ==
    node.data[Dot([i \in 1..Len(p) |-> p[i] - node.fields[i]], Strides(chunk_shape))
                * item_size + b + 1]

\* The oracle: every position of data_shape in row-major order takes its
\* element from the chunk that holds it, and zero where there is none.
Oracle(d) ==
    [k \in 1..(Prod(d.shape) * d.elemSize) |->
        LET p == Unravel((k - 1) \div d.elemSize, d.shape)
            holders == { n \in 1..Len(d.nodes) : InChunk(p, d.nodes[n], d.wire.dims) }
        IN  IF holders = {} THEN 0
            ELSE ChunkItemByte(p, d.nodes[CHOOSE n \in holders : TRUE], d.wire.dims,
                               d.elemSize, (k - 1) % d.elemSize)]

ChunkedRead == dsOut # NotCalled /\ ds.wire.layoutClass = 2 /\ dsOut.ok

\* C3: for a chunked dataset whose chunk rank equals the dataspace rank, after
\* Variable.data every position p of data_shape that lies in a chunk holds, at
\* byte offset dot(p, strides) * item_size, the item_size bytes at the row-major
\* index of p - c in that chunk; and the output is the oracle's, which visits
\* every position of data_shape in row-major order.
C3_ScatterIsOracle ==
    (ChunkedRead /\ Len(ds.wire.dims) = Len(ds.shape)) =>
        /\ \A e \in 0..(Prod(ds.shape) - 1), n \in 1..Len(ds.nodes), b \in 0..(ds.elemSize - 1) :
              InChunk(Unravel(e, ds.shape), ds.nodes[n], ds.wire.dims) =>
                  dsOut.val.v[Dot(Unravel(e, ds.shape), Strides(ds.shape)) * ds.elemSize + b + 1]
                    = ChunkItemByte(Unravel(e, ds.shape), ds.nodes[n], ds.wire.dims,
                                    ds.elemSize, b)
        /\ dsOut.val.v = Oracle(ds)

\* A dataset of rank 2 or more with several chunks of several elements, wider
\* than one byte, has been read.
C3_Witness ==
    /\ ChunkedRead
    /\ Len(ds.shape) >= 2 /\ Len(ds.nodes) >= 2
    /\ Prod(ds.wire.dims) >= 4 /\ ds.elemSize = 2
    /\ \E k \in 1..Len(dsOut.val.v) : dsOut.val.v[k] # 0

\* The data position of element j (row-major in the chunk) of a node.
ChunkElementPos(j, node, chunk_shape) ==
    [i \in 1..Len(chunk_shape) |-> node.fields[i] + Unravel(j, chunk_shape)[i]]

OutOfExtent(q, data_shape) == \E i \in 1..Len(q) : q[i] >= data_shape[i]

\* C4: a chunk element with data_pos[i] >= data_shape[i] in some dimension is
\* written nowhere in the output, and every output byte that no in-bounds chunk
\* element covers is zero.  (Every byte of every chunk is distinct and nonzero.)
C4_OutOfBoundsNowhere ==
    ChunkedRead =>
        /\ \A n \in 1..Len(ds.nodes), j \in 0..(Prod(ds.wire.dims) - 1), b \in 1..ds.elemSize :
              OutOfExtent(ChunkElementPos(j, ds.nodes[n], ds.wire.dims), ds.shape) =>
                  \A k \in 1..Len(dsOut.val.v) :
                      dsOut.val.v[k] # ds.nodes[n].data[j * ds.elemSize + b]
        /\ \A k \in 1..Len(dsOut.val.v) :
              (\A n \in 1..Len(ds.nodes) :
                  ~InChunk(Unravel((k - 1) \div ds.elemSize, ds.shape), ds.nodes[n], ds.wire.dims))
                  => dsOut.val.v[k] = 0

\* A dataset of rank 2 whose fastest axis is not a multiple of the chunk's, so
\* that the last chunk of a row reaches past the row, with a chunk missing.
C4_Witness ==
    /\ ChunkedRead
    /\ Len(ds.shape) = 2 /\ ds.shape[1] >= 2
    /\ ds.shape[2] % ds.wire.dims[2] # 0
    /\ Len(ds.nodes) >= 1 /\ Len(ds.nodes) < Len(Grid(ds.shape, ds.wire.dims))
    /\ \E k \in 1..Len(dsOut.val.v) : dsOut.val.v[k] # 0

DataLength(val) == IF val.t = "Uint8Array" THEN Len(val.v) ELSE Len(val.buf)

\* C5: for every dataset whose data is materialized, contiguous (layout message
\* version 1, 2 or 3) or chunked, the length in bytes of Variable.data is
\* prod(shape) times the element size.
C5_DataLength ==
    (dsOut # NotCalled /\ dsOut.ok /\ dsOut.val # null) =>
        DataLength(dsOut.val @@ [t |-> "stream"]) = Prod(ds.shape) * ds.elemSize

\* What does hold: the length is right for chunked data and for the contiguous
\* data of a version 3 layout message.
C5_LengthChunkedAndV3 ==
    (dsOut # NotCalled /\ dsOut.ok /\ dsOut.val # null /\ ds.wire.version # 3
        /\ ds.wire.layoutClass = 1) \/ C5_DataLength

C6_PositionRestored ==
    (lastOp.op \in {"groups", "attributes", "value.data"} /\ lastOp.ok)
        => lastOp.after = lastOp.before

\* What does hold: such a call leaves the reader where it was or at 0.
C6_RestoredOrZero ==
    (lastOp.op \in {"groups", "attributes", "value.data"} /\ lastOp.ok)
        => lastOp.after \in {lastOp.before, 0}

ParentPath(gid) == groups[SubSeq(gid, 1, Len(gid) - 1)].path

\* C9: the root Group has the empty path; a child named n of the root has path
\* '/' + n; a child named n of another group of path P has path P + '/' + n.
C9_PathsFromEmpty ==
    \A gid \in DOMAIN groups :
        CASE Len(gid) = 0 -> groups[gid].path = ""
          [] Len(gid) = 1 -> groups[gid].path = "/" \o gid[1]
          [] OTHER -> groups[gid].path = ParentPath(gid) \o "/" \o gid[Len(gid)]

\* C9, amended: the root Group has path '/'; a child named n of a group whose
\* path is '/' has path '/' + n; a child named n of a group of any other path P
\* has path P + '/' + n.
C9_PathsFromSlash ==
    \A gid \in DOMAIN groups :
        CASE Len(gid) = 0 -> groups[gid].path = "/"
          [] Len(gid) > 0 /\ ParentPath(gid) = "/" ->
                groups[gid].path = "/" \o gid[Len(gid)]
          [] OTHER -> groups[gid].path = ParentPath(gid) \o "/" \o gid[Len(gid)]

\* The children of the root and of one of them have been read: '/a/c' is there.
C9_Witness ==
    /\ <<"a", "c">> \in DOMAIN groups
    /\ groups[<<"a", "c">>].path = "/a/c"
    /\ groups[<<"a">>].path = "/a"

UnsupportedVersion == [t |-> "error", v |-> "Unsupported Superblock version"]

\* C10: File.read returns a root Group for a well-formed superblock of version
\* 0, 1, 2 or 3, and fails with the unsupported-version error for any other.
C10_ReadByVersion ==
    (lastOp.op = "File.read" /\ image.base = 0) =>
        IF image.version \in 0..3
        THEN lastOp.ok /\ file.rootGroup = <<>> /\ <<>> \in DOMAIN groups
        ELSE ~lastOp.ok /\ lastOp.val = UnsupportedVersion

\* What does hold: the same of every version but 1.
C10_ReadByVersionNot1 ==
    (lastOp.op = "File.read" /\ image.version = 1) \/ C10_ReadByVersion


\* C11: whenever File.read returns a root Group, the base address read from
\* the superblock is zero, for every superblock version.
C11_BaseAddressZero ==
    (lastOp.op = "File.read" /\ lastOp.ok) => file.fields.baseAddress = Num(0)

\* What does hold: the same of the versions 0 and 1, whose branch tests it.
C11_BaseAddressZeroV0 ==
    (lastOp.op = "File.read" /\ image.version \in {2, 3}) \/ C11_BaseAddressZero

\* The names of the Link messages that carry an objectHeaderAddress, in order.
HardLinkNames(links) ==
    [i \in 1..Len(SelectSeq(links, LAMBDA l : l.objectHeaderAddress # undefined)) |->
        SelectSeq(links, LAMBDA l : l.objectHeaderAddress # undefined)[i].name]

\* The names of the symbol table entries of the B-tree, from the local heap.
TreeEntryNames(entry) ==
    [i \in 1..Len(image.trees[entry.treeAddress.v]) |->
        image.heaps[entry.heapAddress.v].strings[
            image.trees[entry.treeAddress.v][i].linkNameOffset.v]]

HasTree(g) ==
    g.entry # null /\ (Truthy(g.entry.treeAddress) \/ Truthy(g.entry.heapAddress))

\* The object header of a group, parsed or not yet.
HeaderOf(g) ==
    IF g.entry # null THEN image.objects[g.entry.objectHeaderAddress.v]
    ELSE g.dataObjectHeader

GroupsRead(gid) ==
    /\ gid \in DOMAIN groups
    /\ <<gid, "groups">> \in DOMAIN reads
    /\ reads[<<gid, "groups">>].first.ok

\* C12: Group.groups holds one child per symbol table entry of the group's
\* B-tree, named from the local heap, when the group has an entry with a tree
\* or heap address; in every other case, a group built from an entry of cache
\* type 0 included, one child per Link message with an objectHeaderAddress of
\* the group's object header, and none for a soft link.
C12_ChildrenBySource ==
    \A gid \in GroupIds :
        GroupsRead(gid) =>
            /\ reads[<<gid, "groups">>].first.val.keys =
                  IF HasTree(groups[gid]) THEN TreeEntryNames(groups[gid].entry)
                  ELSE HardLinkNames(HeaderOf(groups[gid]).links)
            /\ \A i \in 1..Len(reads[<<gid, "groups">>].first.val.keys) :
                  Append(gid, reads[<<gid, "groups">>].first.val.keys[i]) \in DOMAIN groups

\* What does hold: a group built from an entry without tree and heap address
\* has no children; the others are as C12 says.
C12_ChildrenEntryOrHeader ==
    \A gid \in GroupIds :
        GroupsRead(gid) =>
            IF groups[gid].entry # null /\ ~HasTree(groups[gid])
            THEN reads[<<gid, "groups">>].first.val.keys = <<>>
            ELSE reads[<<gid, "groups">>].first.val.keys =
                    IF HasTree(groups[gid]) THEN TreeEntryNames(groups[gid].entry)
                    ELSE HardLinkNames(HeaderOf(groups[gid]).links)

\* The children of a group made from Link messages, one of them soft, have
\* been read.
C12_LinksRead ==
    \E gid \in GroupIds :
        /\ GroupsRead(gid) /\ Len(gid) = 2
        /\ reads[<<gid, "groups">>].first.val.keys = <<"d">>

(***************************************************************************)
(* The accessors: the end of the source, 64-bit fields, the sentinel       *)
(***************************************************************************)
\* The bytes an accessor asks for.
Span(r, op) ==
    CASE op.name \in {"byte", "int8"} -> 1
      [] op.name \in {"uint16", "int16", "float16"} -> 2
      [] op.name \in {"int32", "uint32", "float32"} -> 4
      [] op.name \in {"int64", "uint64", "float64"} -> 8
      [] op.name = "offset" -> r.offsetSize
      [] op.name = "length" -> r.lengthSize
      [] op.name \in {"read", "skip"} -> op.a

\* The call op on the reader r asks for a span that ends past the source.
PastEnd(r, op) ==
    CASE op.name = "seek" -> op.a > Len(r.buf)
      [] op.name \in {"offset", "length"} ->
            Span(r, op) \in {4, 8} /\ Reader_position(r) + Span(r, op) > Len(r.buf)
      [] op.name \in {"byte", "int8", "uint16", "int16", "float16", "int32", "uint32",
                      "float32", "int64", "uint64", "float64", "read", "skip"} ->
            Reader_position(r) + Span(r, op) > Len(r.buf)
      [] OTHER -> FALSE

EndOfFileError == [t |-> "error", v |-> EndOfFile]

\* C13: for both readers, every accessor (byte, int8..int64, uint16..uint64,
\* float16/32/64, offset, length, read(n), skip(n), seek(pos)) fails with an
\* end-of-file error and returns no value whenever the span it asks for
\* reaches past the end of the source.
C13_PastEndFails ==
    [][/\ PastEnd(br, rdOp') => (~brOut'.ok /\ brOut'.val = EndOfFileError)
       /\ PastEnd(sr, rdOp') => (~srOut'.ok /\ srOut'.val = EndOfFileError)]_vars

\* An offset of 8 bytes was asked for inside a source of 8 bytes or more, with
\* fewer than 8 left, and both readers failed.
C13_Witness ==
    /\ rdOp.name = "offset" /\ rdOp.b = 2
    /\ br.offsetSize = 8 /\ Len(br.buf) >= 8
    /\ brOut = [ok |-> FALSE, val |-> EndOfFileError]
    /\ srOut = [ok |-> FALSE, val |-> EndOfFileError]

\* b > c, of two unsigned numbers of as many bytes.
Exceeds(b, c) ==
    \E i \in 1..Len(b) : b[i] > c[i] /\ \A j \in (i + 1)..Len(b) : b[j] = c[j]

\* The 8 bytes at the reader's position, when offset() or length() is about to
\* read a field of width 8 that lies inside the source; <<>> otherwise.
Field8(r, op) ==
    IF /\ op.name \in {"offset", "length"}
       /\ Span(r, op) = 8
       /\ Reader_position(r) + 8 <= Len(r.buf)
    THEN SubSeq(r.buf, Reader_position(r) + 1, Reader_position(r) + 8)
    ELSE <<>>

ExactOrFails(r, op, out) ==
    (Field8(r, op) # <<>> /\ ~AllOnes(Field8(r, op))) =>
        IF Exceeds(Field8(r, op), MAX_SAFE_INTEGER) THEN ~out.ok
        ELSE out = [ok |-> TRUE, val |-> Uint(Field8(r, op))]

\* C14: with width 8, offset() and length() fail for every value greater than
\* 2^53 - 1 other than the all-ones sentinel, and return the exact value for
\* every value up to 2^53 - 1; no value is returned truncated or rounded.
C14_ExactOrFails ==
    [][ExactOrFails(br, rdOp', brOut') /\ ExactOrFails(sr, rdOp', srOut')]_vars

ExactBelowMax(r, op, out) ==
    (Field8(r, op) # <<>> /\ ~AllOnes(Field8(r, op))) =>
        IF AtLeast(Field8(r, op), MAX_SAFE_INTEGER) THEN ~out.ok
        ELSE out = [ok |-> TRUE, val |-> Uint(Field8(r, op))]

\* What does hold: the same with 2^53 - 1 among the values that fail.
C14_ExactBelowMax ==
    [][ExactBelowMax(br, rdOp', brOut') /\ ExactBelowMax(sr, rdOp', srOut')]_vars

\* offset() and then length() were read at rdOp.a, both of width 4 or 8, from
\* bytes that are all ones.
BothAllOnes(r) ==
    /\ rdOp.name = "seek offset seek length"
    /\ r.offsetSize \in {4, 8} /\ r.lengthSize \in {4, 8}
    /\ rdOp.a + 8 <= Len(r.buf)
    /\ AllOnes(SubSeq(r.buf, rdOp.a + 1, rdOp.a + 8))

OtherWidthFails(r, out) ==
    /\ (rdOp.name = "offset" /\ r.offsetSize \notin {4, 8}) => ~out.ok
    /\ (rdOp.name = "length" /\ r.lengthSize \notin {4, 8}) => ~out.ok

\* C15: offset() and length() map the all-ones pattern to one and the same
\* sentinel for width 4 and for width 8, and fail for any other width.
C15_OneSentinel ==
    /\ BothAllOnes(br) => (brOut.ok /\ brOut.val.first = brOut.val.second)
    /\ BothAllOnes(sr) => (srOut.ok /\ srOut.val.first = srOut.val.second)
    /\ OtherWidthFails(br, brOut) /\ OtherWidthFails(sr, srOut)

SentinelOf(width) == IF width = 8 THEN Num(-1) ELSE undefined

\* What does hold: all ones read as undefined with width 4 and as -1 with
\* width 8, and any other width fails.
C15_SentinelByWidth ==
    /\ BothAllOnes(br) =>
          brOut = [ok |-> TRUE,
                   val |-> [t |-> "two fields", first |-> SentinelOf(br.offsetSize),
                            second |-> SentinelOf(br.lengthSize)]]
    /\ BothAllOnes(sr) => srOut = brOut
    /\ OtherWidthFails(br, brOut) /\ OtherWidthFails(sr, srOut)


(***************************************************************************)
(* C16: constructing a DataObjectHeader terminates for every input, of     *)
(* version 1 and of version 2, also when a continuation points back to a   *)
(* chunk that was visited: the constructor returns or throws.              *)
(***************************************************************************)
C16_Terminates == <>(walk.pc \in {"done", "failed"})

\* What holds: the loop of version 1 ends, its count being what bounds it.
C16_TerminatesV1 == (walk.pc = "v1") ~> (walk.pc \in {"done", "failed"})

(***************************************************************************)
(* C17: every message header is read from inside the current region, the   *)
(* first chunk or the continuation being followed: at or after its start   *)
(* and before its end, also when the count of version 1 announces more     *)
(* messages than the region holds.                                         *)
(***************************************************************************)
Inside(header) == header.lo <= header.at /\ header.at < header.hi

C17_HeadersInsideRegion == walk.pc # "new" => Inside(walk.header)

\* What holds: the loop of version 2 reads no message header outside the
\* current region.
C17_HeadersInsideRegionV2 == [][WalkV2 => Inside(walk'.header)]_vars

(***************************************************************************)
(* C18: after _readMessage handled a message of a type of the dispatch     *)
(* table, NIL included, the reader is at the start of the payload plus the *)
(* size of the message, whatever the parser consumed; a type outside the   *)
(* table makes the parse fail.                                             *)
(***************************************************************************)
DispatchTable == StoredTypes \cup {0, 16}

Restored(message) == message.after = message.at + message.size

UnsupportedType ==
    walk.pc = "failed" /\ walk.error = [t |-> "error", v |-> "Unsupported message type"]

C18_PositionAfterMessage ==
    /\ (walk.pc # "failed" /\ walk.message.type \in DispatchTable) => Restored(walk.message)
    /\ (walk.message.type >= 0 /\ walk.message.type \notin DispatchTable) => UnsupportedType

\* What holds: the reader is at the payload's start plus the size after every
\* message of the table but NIL, after which it is at the payload's start.
C18_PositionAfterStored ==
    /\ (walk.pc # "failed" /\ walk.message.type \in DispatchTable \ {0}) =>
            Restored(walk.message)
    /\ (walk.pc # "failed" /\ walk.message.type = 0) =>
            walk.message.after = walk.message.at
    /\ (walk.message.type >= 0 /\ walk.message.type \notin DispatchTable) => UnsupportedType

(***************************************************************************)
(* C19: continuations are followed in the order their messages were read,  *)
(* each when the current chunk ends or a NIL message is hit, and the walk  *)
(* does not end while a continuation is pending, whatever its length.      *)
(***************************************************************************)
FollowedWhenDue ==
    walk.pc \in {"v1", "v2", "done"} =>
        (walk.step.followed <=>
            ((walk.step.ended \/ walk.step.nil) /\ walk.step.pending))

C19_ContinuationsFollowed ==
    /\ walk.inOrder
    /\ FollowedWhenDue
    /\ walk.pc = "done" => walk.continuations = <<>>

\* What holds: the continuations are followed first in, first out, each when
\* the chunk ends or a NIL is hit.
C19_FollowedInOrder == walk.inOrder /\ FollowedWhenDue

(***************************************************************************)
(* C20: the type of a fixed-point datatype of size 1, 2, 4 or 8 is the     *)
(* unsigned name exactly when flag bit 0x08 is clear and the signed name   *)
(* exactly when it is set, for either byte order, and an element is read   *)
(* with that signedness.  The flags are those the getter accepts: no bit   *)
(* of 0xfff6 set.                                                          *)
(***************************************************************************)
FixedPoint ==
    /\ dt.pc = "made" /\ dt.d.class = 0 /\ dt.d.size \in {1, 2, 4, 8}
    /\ BitAnd(dt.d.flags, 65526) = 0

SignBit == Bit(dt.d.flags, 8)

\* The element at dt.at, read as unsigned and as signed.
ReadUnsigned ==
    Datatype_read([dt.d EXCEPT !.flags = 0], seek(dt.r, dt.at).r)

ReadSigned ==
    Datatype_read([dt.d EXCEPT !.flags = 8], seek(dt.r, dt.at).r)

C20_TypeBySign ==
    /\ (FixedPoint /\ dt.type # NotCalled) =>
            /\ dt.type = UintName(dt.d.size) <=> ~SignBit
            /\ dt.type = IntName(dt.d.size) <=> SignBit
    /\ (FixedPoint /\ dt.type # NotCalled /\ dt.value # NotCalled) =>
            /\ dt.type = UintName(dt.d.size) => dt.value = ReadUnsigned
            /\ dt.type = IntName(dt.d.size) => dt.value = ReadSigned

\* What holds: the type is the unsigned name when the flags are 0 and the
\* signed name when they are not, and read decodes by bit 0x08.
C20_TypeByFlags ==
    /\ (FixedPoint /\ dt.type # NotCalled) =>
            /\ dt.type = UintName(dt.d.size) <=> dt.d.flags = 0
            /\ dt.type = IntName(dt.d.size) <=> dt.d.flags # 0
    /\ (FixedPoint /\ dt.value # NotCalled) =>
            dt.value = IF SignBit THEN ReadSigned ELSE ReadUnsigned

(***************************************************************************)
(* C21: littleEndian of a fixed-point or floating-point datatype is        *)
(* (flags & 0x01) == 0: true when flag bit 0 is clear, false when set.     *)
(***************************************************************************)
Numeric == dt.pc = "made" /\ dt.d.class \in {0, 1} /\ dt.littleEndian # NotCalled

C21_LittleEndianByFlag == Numeric => dt.littleEndian = Bool(~Bit(dt.d.flags, 1))

\* What holds: littleEndian is true of every datatype, whatever its flags.
C21_LittleEndianAlways ==
    (dt.pc = "made" /\ dt.littleEndian # NotCalled) => dt.littleEndian = Bool(TRUE)

(***************************************************************************)
(* C22: Dataspace.decode replaces every leaf of an array of any rank >= 1  *)
(* by Datatype.decode(leaf, globalHeap), for the value of an attribute and *)
(* for the value of a dataset; the leaves are ones Datatype.decode         *)
(* accepts.                                                                *)
(***************************************************************************)
\* The array with every leaf decoded through the global heap.
RECURSIVE LeavesDecoded(_)
LeavesDecoded(v) ==
    IF v.t = "Array" THEN Arr([i \in 1..Len(v.v) |-> LeavesDecoded(v.v[i])])
    ELSE Datatype_decode(dec.datatype, v, dec.globalHeap).val

RECURSIVE LeavesAccepted(_)
LeavesAccepted(v) ==
    IF v.t = "Array" THEN \A i \in 1..Len(v.v) : LeavesAccepted(v.v[i])
    ELSE Datatype_decode(dec.datatype, v, dec.globalHeap).ok

DecodedArrayOf(rank) ==
    dec.pc = "decoded" /\ Len(dec.sizes) \in rank /\ LeavesAccepted(dec.data)

C22_EveryLeafDecoded ==
    DecodedArrayOf({1, 2, 3}) => dec.out = Returned(LeavesDecoded(dec.data))

\* What holds: the leaves of an array of rank 1 are decoded for an attribute;
\* an array of a higher rank is returned as it was read; and the value of a
\* dataset of variable-length elements fails, its global heap being the array.
C22_LeavesOfRankOne ==
    /\ (DecodedArrayOf({1}) /\ dec.caller = "attribute") =>
            dec.out = Returned(LeavesDecoded(dec.data))
    /\ DecodedArrayOf({2, 3}) => dec.out = Returned(dec.data)
    /\ (DecodedArrayOf({1}) /\ dec.caller = "variable") =>
            dec.out = IF dec.datatype.class = 9
                      THEN Thrown("TypeError: globalHeap.get is not a function")
                      ELSE Returned(LeavesDecoded(dec.data))
====
